---- MODULE Spec2Model ----
(***************************************************************************)
(* Board service of management-app: ordering of lists within a board       *)
(* (ListController, BoardController.createBoard), the Socket.IO room layer *)
(* (socketHandler), the steps of a controller after its commit, and the    *)
(* RabbitMQ publisher and consumer of shared-utils.                        *)
(***************************************************************************)
EXTENDS Naturals, Integers, Sequences, FiniteSets, TLC

\* ---------------------------------------------------------------- bounds
\* number of HTTP requests handled in one behaviour that starts with no board
MaxOps == 3
\* number of HTTP requests handled in one behaviour that starts from a board
PosOps == 2
\* largest number of lists of the board such a behaviour starts from
MaxN == 4
\* largest position a client sends (Joi only demands an integer >= 0)
MaxPos == 5
\* largest number of active cards the card service puts into one list
MaxCards == 1

\* ------------------------------------------------------- program constants
\* createBoard's defaultLists: 'To Do', 'In Progress', 'In Review', 'Done'
DefaultLists == 4

Boards == {"b1", "b2"}
Users == {"u1", "u2"}

VARIABLES
  boards,   \* Board collection: boardId -> document (or absent)
  lists,    \* List collection: listId -> [boardId, position, isArchived]
  cards,    \* Card collection, per list: [active, archived] counts
  nextId,   \* next fresh list _id
  budget,   \* requests still to be handled in this behaviour
  last,     \* the request handled last and its outcome
  pre,      \* List collection as it was before the last request
  ins,      \* the list inserted by the latest createList, and the lists before it
  req,      \* requests in flight: their position in the handler and its locals
  overlap,  \* whether two requests have been in flight at the same time
  connected,     \* socket.connected of each session
  rooms,         \* the rooms each socket is in
  currentBoard,  \* socket.currentBoard
  emitted,       \* the emissions of the latest event handler, in order
  outcome,       \* the mutation whose broadcast step ran last
  env,           \* what the broker and the activity store do with a call
  isConnected,   \* RabbitMQConnection.isConnected
  tail,          \* the request that has committed and runs the rest of its handler
  handlers,      \* Consumer.handlers: the Map's entries in insertion order
  bound,         \* the patterns the service's queue is bound with
  queue,         \* the messages ready in the service's queue
  delivery,      \* the delivery handed to the consume callback last
  exchange,      \* the message published last and whether it reached the queue
  call,          \* an invocation of a method on inputs chosen at the start
  typingTimer,   \* the typingTimer of each socket's typing handlers
  user,          \* the User document of one account: loginAttempts, lockUntil
  clock,         \* Date.now()
  attempt,       \* the outcome of the latest login and the failures in a row
  rabbitmq,      \* RabbitMQConnection: this.connection and this.channel
  made,          \* the connections and channels the broker has opened
  callers        \* the calls of connect(): their position and their result

vars == <<boards, lists, cards, nextId, budget, last, pre, ins, req, overlap,
          connected, rooms, currentBoard, emitted, outcome,
          env, isConnected, tail, handlers, bound, queue, delivery, exchange, call,
          typingTimer, user, clock, attempt, rabbitmq, made, callers>>

\* the collections
storage == <<boards, lists, cards, nextId>>

\* the Socket.IO layer
realtime == <<connected, rooms, currentBoard, emitted, outcome>>

\* the broker, seen from the publisher and from the consumer
messaging == <<env, isConnected, handlers, bound, queue, delivery, exchange>>

\* what neither the list handlers nor the sockets touch
downstream == <<messaging, tail, call>>

\* the closures of the client-originated socket events
typing == <<typingTimer>>

\* the auth service's account
auth == <<user, clock, attempt>>

\* the RabbitMQConnection singleton and the calls of connect() in flight
amqp == <<rabbitmq, made, callers>>

\* what only the handlers of its own section touch
side == <<typing, auth, amqp>>

\* what the HTTP handlers of the lists leave alone
elsewhere == <<realtime, downstream, side>>

\* what a request handled to completion in one step leaves alone
inFlight == <<req, overlap>>

\* what a step of a request in flight leaves alone
history == <<budget, last, pre, ins>>

\* ------------------------------------------------------------- documents
NoBoard == [exists |-> FALSE, owner |-> "none", members |-> [u \in Users |-> "none"],
            totalLists |-> 0, totalCards |-> 0]

NoIns == [id |-> 0, age |-> 0, board |-> "none", given |-> FALSE, p |-> 0, lists |-> <<>>]

NoEmit == [handler |-> "none", room |-> "none"]

NoLast == [op |-> "none", status |-> "none", committed |-> FALSE, board |-> "none",
           id |-> 0, given |-> FALSE, old |-> 0, new |-> 0, writes |-> 0,
           emit |-> NoEmit]

\* a request that ended in an early return: nothing written, nothing emitted
Failure(op, status) == [NoLast EXCEPT !.op = op, !.status = status]

\* --------------------------------------------------------- Board methods
isMember(board, userId) ==
  board.members[userId] # "none" \/ board.owner = userId

roleHierarchy(role) ==
  CASE role = "viewer" -> 1
    [] role = "member" -> 2
    [] role = "admin" -> 3
    [] OTHER -> 0

\* a check that demands a role above the required one
hasPermission_above(board, userId, requiredRole) ==
  IF board.owner = userId THEN TRUE
  ELSE IF board.members[userId] = "none" THEN FALSE
  ELSE roleHierarchy(board.members[userId]) > roleHierarchy(requiredRole)

hasPermission(board, userId, requiredRole) ==
  IF board.owner = userId THEN TRUE
  ELSE IF board.members[userId] = "none" THEN FALSE
  ELSE roleHierarchy(board.members[userId]) >= roleHierarchy(requiredRole)

\* ------------------------------------------------------- List collection
\* ids of the non-archived lists of a board
NonArchived(ls, b) ==
  {id \in DOMAIN ls : ls[id].boardId = b /\ ~ls[id].isArchived}

\* List.updateMany({boardId, position: {$gte: lo, $lte: hi}, _id: {$ne: skip},
\* isArchived: false}, {$inc: {position: d}})
UpdateManyInc(ls, b, lo, hi, skip, d) ==
  [id \in DOMAIN ls |->
     IF /\ ls[id].boardId = b
        /\ ls[id].position >= lo
        /\ ls[id].position <= hi
        /\ id # skip
        /\ ~ls[id].isArchived
     THEN [ls[id] EXCEPT !.position = @ + d]
     ELSE ls[id]]

\* larger than every stored position: stands for an open upper end of a range
Top == 4 * (MaxPos + MaxOps + PosOps + MaxN + DefaultLists)

\* List.findOne({boardId, isArchived: false}).sort({position: -1}): the
\* largest position, and finalPosition = maxPosition ? maxPosition.position + 1 : 0
AppendPosition(ls, b) ==
  IF NonArchived(ls, b) = {} THEN 0
  ELSE LET m == CHOOSE m \in {ls[id].position : id \in NonArchived(ls, b)} :
                  \A id \in NonArchived(ls, b) : ls[id].position <= m
       IN m + 1

\* new List({boardId, position}).save()
InsertList(ls, id, b, p) ==
  [i \in DOMAIN ls \cup {id} |->
     IF i = id THEN [boardId |-> b, position |-> p, isArchived |-> FALSE]
     ELSE ls[i]]

\* List.findByIdAndDelete(listId)
RemoveList(ls, id) == [i \in DOMAIN ls \ {id} |-> ls[i]]

\* ------------------------------------------------------ real-time handlers
\* the handler objects socketHandler puts on io
ListHandlers == {"list_created", "list_updated", "list_moved", "list_deleted"}
BoardHandlers == {"board_updated", "board_member_added", "board_member_removed"}

\* if (io && io.listHandlers) io.listHandlers.<handler>({boardId, ...}):
\* a handler that exists emits to room board:{boardId}; calling a missing one
\* throws a TypeError
HandlerExists(handler) == handler \in ListHandlers \cup BoardHandlers

EmitOutcome(handler, b) ==
  IF HandlerExists(handler) THEN [handler |-> handler, room |-> b]
  ELSE [handler |-> handler, room |-> "none"]

\* the status the caller sees after the controller's broadcast step
StatusAfterEmit(handler) == IF HandlerExists(handler) THEN "ok" ELSE "error"

\* ----------------------------------------------------------- Socket.IO layer
Sessions == {"s1", "s2"}

\* socket.user.id, decoded from the token of the handshake
SessionUser(s) == IF s = "s1" THEN "u1" ELSE "u2"

BoardRoom(b) == [kind |-> "board", id |-> b]
UserRoom(u) == [kind |-> "user", id |-> u]

\* no socket connected, no mutation broadcast yet
NoOutcome == [op |-> "none", board |-> "none", status |-> "none"]

\* lockUntil: undefined
NoLock == 0

NoAttempt == [status |-> "none", streak |-> 0]

\* the connect() calls that may overlap: publisher.init, consumer.init and a
\* publishEvent
Callers == {"publisher.init", "consumer.init", "publishEvent"}

\* this.connection = null; this.channel = null
NoConn == [connection |-> 0, channel |-> 0]

NoCaller == [pc |-> "idle", connection |-> 0, result |-> 0]

\* a new account, the clock at some instant, a connection object just built
InitSide ==
  /\ user = [loginAttempts |-> 0, lockUntil |-> NoLock]
  /\ clock = 1
  /\ attempt = NoAttempt
  /\ rabbitmq = NoConn
  /\ made = [connections |-> 0, channels |-> 0]
  /\ callers = [c \in Callers |-> NoCaller]

\* let typingTimer: undefined, or cleared
NoTimer == [boardId |-> "none", cardId |-> "none"]

InitRealtime ==
  /\ connected = [s \in Sessions |-> FALSE]
  /\ rooms = [s \in Sessions |-> {}]
  /\ currentBoard = [s \in Sessions |-> "null"]
  /\ emitted = <<>>
  /\ outcome = NoOutcome
  /\ typingTimer = [s \in Sessions |-> NoTimer]

\* ------------------------------------------------------------------ strings
\* A string is the sequence of its pieces: the separators "." and "_" and the
\* words between them.  'card.moved' is <<"card", ".", "moved">>, '' is <<>>.
Dot == "."

HasDot(s) == \E i \in 1 .. Len(s) : s[i] = Dot

\* index of the first '.' of a string that has one
FirstDot(s) == CHOOSE i \in 1 .. Len(s) : s[i] = Dot /\ \A j \in 1 .. (i - 1) : s[j] # Dot

\* s.split('.'): the segments between the dots; ''.split('.') is ['']
RECURSIVE Split(_)
Split(s) ==
  IF ~HasDot(s) THEN <<s>>
  ELSE <<SubSeq(s, 1, FirstDot(s) - 1)>> \o Split(SubSeq(s, FirstDot(s) + 1, Len(s)))

\* segments.join('.')
RECURSIVE Join(_)
Join(segs) ==
  IF Len(segs) = 0 THEN <<>>
  ELSE IF Len(segs) = 1 THEN segs[1]
  ELSE segs[1] \o <<Dot>> \o Join(Tail(segs))

\* s.replace('.', '_'): a string pattern replaces the first occurrence only
ReplaceFirstDot(s) ==
  IF ~HasDot(s) THEN s ELSE [s EXCEPT ![FirstDot(s)] = "_"]

\* array[i] beyond the end of the array
Undefined == <<"undefined">>

\* parts[i], for the 0-based index i - 1 of the code
Part(parts, i) == IF i <= Len(parts) THEN parts[i] ELSE Undefined

Star == <<"*">>
Hash == <<"#">>

\* -------------------------------------------------------------- event types
LIST_CREATED == <<"list", ".", "created">>
LIST_UPDATED == <<"list", ".", "updated">>
LIST_DELETED == <<"list", ".", "deleted">>
LIST_MOVED == <<"list", ".", "moved">>
BOARD_CREATED == <<"board", ".", "created">>
BOARD_UPDATED == <<"board", ".", "updated">>
BOARD_DELETED == <<"board", ".", "deleted">>
CARD_ASSIGNED == <<"card", ".", "assigned">>
USER_REGISTERED == <<"user", ".", "registered">>
WORKSPACE_MEMBER_ADDED == <<"workspace", ".", "member", ".", "added">>

\* the routing key publishEvent takes when the caller passes none
NoKey == <<>>

\* ----------------------------------------------------------------- messages
\* a message in the broker: the routing key it was published with, the
\* eventType of its envelope, and whether its body is the JSON of an envelope
NoMsg == [eventType |-> <<>>, routingKey |-> <<>>, json |-> TRUE]

NoExchange == [msg |-> NoMsg, explicit |-> FALSE, routed |-> FALSE]

\* no delivery yet: pc is the position in the consume callback
NoDelivery == [pc |-> "idle", msg |-> NoMsg, acks |-> 0, nacks |-> 0,
               invoked |-> <<>>, threw |-> FALSE]

\* no request past its commit; brokerUp: the broker has been reachable ever
\* since the commit
NoTail == [op |-> "none", pc |-> "idle", board |-> "none", committed |-> FALSE,
           brokerUp |-> FALSE, published |-> <<>>, pubFailed |-> FALSE,
           emit |-> NoEmit, status |-> "none"]

NoCall == [fn |-> "none", args |-> <<>>, done |-> FALSE, result |-> FALSE]

\* nothing connected, registered, bound or published
InitMessaging ==
  /\ InitSide
  /\ env = [broker |-> "up", activity |-> "up"]
  /\ isConnected = FALSE
  /\ tail = NoTail
  /\ handlers = <<>>
  /\ bound = {}
  /\ queue = <<>>
  /\ delivery = NoDelivery
  /\ exchange = NoExchange

InitDownstream ==
  /\ InitMessaging
  /\ call = NoCall

\* ------------------------------------------------------ requests in flight
\* two HTTP requests whose awaits interleave on the one event loop
Requests == {1, 2}

NoDoc == [boardId |-> "none", position |-> 0, isArchived |-> FALSE]

\* a request: op and pc locate it in its handler; id, b, u, given, p are
\* req.params / req.validatedBody / req.user; doc is the `list` document it
\* loaded, pos its finalPosition, tl and tc its copy of board.statistics,
\* cnt the result of Card.countDocuments
Idle == [op |-> "none", pc |-> "idle", status |-> "none", id |-> 0, b |-> "none",
         u |-> "none", given |-> FALSE, p |-> 0, doc |-> NoDoc, pos |-> 0,
         tl |-> 0, tc |-> 0, cnt |-> 0]

\* ---------------------------------------------------------------- history
\* every request after a createList ages its record; it is dropped after one
Age(i) == IF i.id # 0 /\ i.age = 0 THEN [i EXCEPT !.age = 1] ELSE NoIns

\* the service after its start: empty collections, no socket, no broker traffic
Started ==
  /\ boards = [b \in Boards |-> NoBoard]
  /\ lists = <<>>
  /\ cards = <<>>
  /\ nextId = 1
  /\ budget = MaxOps
  /\ last = NoLast
  /\ pre = <<>>
  /\ ins = NoIns
  /\ req = [r \in Requests |-> Idle]
  /\ overlap = FALSE
  /\ InitRealtime
  /\ InitMessaging

Init ==
  /\ Started
  /\ call = NoCall

\* ------------------------------------------------ BoardController.createBoard
\* the four default lists, saved one by one at positions 0..3
createBoardLists(ls, first, b) ==
  [i \in DOMAIN ls \cup (first .. first + DefaultLists - 1) |->
     IF i >= first THEN [boardId |-> b, position |-> i - first, isArchived |-> FALSE]
     ELSE ls[i]]

\* ws: what Workspace.findById / workspace.isMember yield for the caller
createBoard(b, u, ws) ==
  /\ budget > 0
  /\ ~boards[b].exists
  /\ budget' = budget - 1
  /\ pre' = lists
  /\ UNCHANGED <<inFlight, elsewhere>>
  /\ ins' = Age(ins)
  /\ IF ws = "missing" THEN
       /\ last' = Failure("createBoard", "not_found")
       /\ UNCHANGED <<boards, lists, cards, nextId>>
     ELSE IF ws = "denied" THEN
       /\ last' = Failure("createBoard", "forbidden")
       /\ UNCHANGED <<boards, lists, cards, nextId>>
     ELSE
       /\ lists' = createBoardLists(lists, nextId, b)
       /\ cards' = [i \in DOMAIN lists' |->
                      IF i \in DOMAIN cards THEN cards[i]
                      ELSE [active |-> 0, archived |-> 0]]
       /\ nextId' = nextId + DefaultLists
       /\ boards' = [boards EXCEPT ![b] =
                       [exists |-> TRUE, owner |-> u,
                        members |-> [x \in Users |-> IF x = u THEN "admin" ELSE "none"],
                        totalLists |-> DefaultLists, totalCards |-> 0]]
       /\ last' = [NoLast EXCEPT !.op = "createBoard",
                                 !.status = StatusAfterEmit("board_created"),
                                 !.committed = TRUE, !.board = b,
                                 !.writes = DefaultLists,
                                 !.emit = EmitOutcome("board_created", b)]

\* --------------------------------------------------- ListController.createList
createListPosition(ls, b, given, p) ==
  IF given THEN p ELSE AppendPosition(ls, b)

\* createList whose shift uses $gt where the code has $gte
createListEffect_gt(ls, id, b, given, p) ==
  LET shifted == IF given THEN UpdateManyInc(ls, b, p + 1, Top, 0, 1) ELSE ls
  IN InsertList(shifted, id, b, createListPosition(ls, b, given, p))

createListEffect(ls, id, b, given, p) ==
  LET shifted == IF given THEN UpdateManyInc(ls, b, p, Top, 0, 1) ELSE ls
  IN InsertList(shifted, id, b, createListPosition(ls, b, given, p))

createList(b, u, given, p) ==
  /\ budget > 0
  /\ budget' = budget - 1
  /\ pre' = lists
  /\ UNCHANGED <<inFlight, elsewhere>>
  /\ IF ~boards[b].exists THEN
       /\ last' = Failure("createList", "not_found")
       /\ ins' = Age(ins)
       /\ UNCHANGED <<boards, lists, cards, nextId>>
     ELSE IF ~isMember(boards[b], u) \/ ~hasPermission(boards[b], u, "member") THEN
       /\ last' = Failure("createList", "forbidden")
       /\ ins' = Age(ins)
       /\ UNCHANGED <<boards, lists, cards, nextId>>
     ELSE
       /\ lists' = createListEffect(lists, nextId, b, given, p)
       /\ cards' = [i \in DOMAIN lists' |->
                      IF i \in DOMAIN cards THEN cards[i]
                      ELSE [active |-> 0, archived |-> 0]]
       /\ nextId' = nextId + 1
       /\ boards' = [boards EXCEPT ![b].totalLists = @ + 1]
       /\ ins' = [id |-> nextId, age |-> 0, board |-> b, given |-> given,
                  p |-> createListPosition(lists, b, given, p), lists |-> lists]
       /\ last' = [NoLast EXCEPT !.op = "createList",
                                 !.status = StatusAfterEmit("list_created"),
                                 !.committed = TRUE, !.board = b, !.id = nextId,
                                 !.given = given,
                                 !.new = createListPosition(lists, b, given, p),
                                 !.writes = IF given THEN 2 ELSE 1,
                                 !.emit = EmitOutcome("list_created", b)]

\* ----------------------------------------------------- ListController.moveList
\* moveList whose move to the left uses $gt where the code has $gte
moveListEffect_gt(ls, id, newPosition) ==
  LET b == ls[id].boardId
      oldPosition == ls[id].position
      shifted == IF newPosition > oldPosition
                 THEN UpdateManyInc(ls, b, oldPosition + 1, newPosition, id, -1)
                 ELSE UpdateManyInc(ls, b, newPosition + 1, oldPosition - 1, id, 1)
  IN [shifted EXCEPT ![id].position = newPosition]

moveListEffect(ls, id, newPosition) ==
  LET b == ls[id].boardId
      oldPosition == ls[id].position
      shifted == IF newPosition > oldPosition
                 THEN UpdateManyInc(ls, b, oldPosition + 1, newPosition, id, -1)
                 ELSE UpdateManyInc(ls, b, newPosition, oldPosition - 1, id, 1)
  IN [shifted EXCEPT ![id].position = newPosition]

moveList(id, u, newPosition) ==
  /\ budget > 0
  /\ budget' = budget - 1
  /\ pre' = lists
  /\ UNCHANGED <<inFlight, elsewhere>>
  /\ ins' = Age(ins)
  /\ UNCHANGED <<boards, cards, nextId>>
  /\ IF id \notin DOMAIN lists THEN
       /\ last' = Failure("moveList", "not_found")
       /\ UNCHANGED lists
     ELSE IF \/ ~boards[lists[id].boardId].exists
             \/ ~hasPermission(boards[lists[id].boardId], u, "member") THEN
       /\ last' = Failure("moveList", "forbidden")
       /\ UNCHANGED lists
     ELSE IF lists[id].position = newPosition THEN
       \* 'List position unchanged': 200 without any write or broadcast
       /\ last' = [NoLast EXCEPT !.op = "moveList", !.status = "ok",
                                 !.board = lists[id].boardId, !.id = id,
                                 !.old = newPosition, !.new = newPosition]
       /\ UNCHANGED lists
     ELSE
       /\ lists' = moveListEffect(lists, id, newPosition)
       /\ last' = [NoLast EXCEPT !.op = "moveList",
                                 !.status = StatusAfterEmit("list_moved"),
                                 !.committed = TRUE,
                                 !.board = lists[id].boardId, !.id = id,
                                 !.old = lists[id].position, !.new = newPosition,
                                 !.writes = 2,
                                 !.emit = EmitOutcome("list_moved", lists[id].boardId)]

\* -------------------------------------------------- ListController.archiveList
\* list.isArchived = true; list.save(); then the lists after it move up
\* archiveList that forgets to move the following lists up
archiveListEffect_noShift(ls, id) ==
  [ls EXCEPT ![id].isArchived = TRUE]

archiveListEffect(ls, id) ==
  UpdateManyInc([ls EXCEPT ![id].isArchived = TRUE],
                ls[id].boardId, ls[id].position + 1, Top, 0, -1)

\* archivedCardCount = Card.countDocuments({listId, isArchived: true}),
\* counted after the list's active cards were archived
archivedCardCount(cs, id) == cs[id].archived

archiveList(id, u) ==
  /\ budget > 0
  /\ budget' = budget - 1
  /\ pre' = lists
  /\ UNCHANGED <<inFlight, elsewhere>>
  /\ ins' = Age(ins)
  /\ UNCHANGED nextId
  /\ IF id \notin DOMAIN lists THEN
       /\ last' = Failure("archiveList", "not_found")
       /\ UNCHANGED <<boards, lists, cards>>
     ELSE IF \/ ~boards[lists[id].boardId].exists
             \/ ~hasPermission(boards[lists[id].boardId], u, "member") THEN
       /\ last' = Failure("archiveList", "forbidden")
       /\ UNCHANGED <<boards, lists, cards>>
     ELSE IF lists[id].isArchived THEN
       /\ last' = Failure("archiveList", "bad_request")
       /\ UNCHANGED <<boards, lists, cards>>
     ELSE
       /\ lists' = archiveListEffect(lists, id)
       \* Card.updateMany({listId, isArchived: false}, {isArchived: true})
       /\ cards' = [cards EXCEPT ![id] = [active |-> 0,
                                          archived |-> @.archived + @.active]]
       /\ boards' = [boards EXCEPT
                       ![lists[id].boardId].totalLists = @ - 1,
                       ![lists[id].boardId].totalCards = @ - archivedCardCount(cards', id)]
       /\ last' = [NoLast EXCEPT !.op = "archiveList",
                                 !.status = StatusAfterEmit("list_archived"),
                                 !.committed = TRUE,
                                 !.board = lists[id].boardId, !.id = id,
                                 !.old = lists[id].position,
                                 !.writes = 2,
                                 !.emit = EmitOutcome("list_archived", lists[id].boardId)]

\* ------------------------------------------------ ListController.unarchiveList
unarchiveListEffect(ls, id) ==
  [ls EXCEPT ![id].isArchived = FALSE,
             ![id].position = AppendPosition(ls, ls[id].boardId)]

\* unarchiveList has no broadcast step
unarchiveList(id, u) ==
  /\ budget > 0
  /\ budget' = budget - 1
  /\ pre' = lists
  /\ UNCHANGED <<inFlight, elsewhere>>
  /\ ins' = Age(ins)
  /\ UNCHANGED <<cards, nextId>>
  /\ IF id \notin DOMAIN lists THEN
       /\ last' = Failure("unarchiveList", "not_found")
       /\ UNCHANGED <<boards, lists>>
     ELSE IF \/ ~boards[lists[id].boardId].exists
             \/ ~hasPermission(boards[lists[id].boardId], u, "member") THEN
       /\ last' = Failure("unarchiveList", "forbidden")
       /\ UNCHANGED <<boards, lists>>
     ELSE IF ~lists[id].isArchived THEN
       /\ last' = Failure("unarchiveList", "bad_request")
       /\ UNCHANGED <<boards, lists>>
     ELSE
       /\ lists' = unarchiveListEffect(lists, id)
       /\ boards' = [boards EXCEPT ![lists[id].boardId].totalLists = @ + 1]
       /\ last' = [NoLast EXCEPT !.op = "unarchiveList", !.status = "ok",
                                 !.committed = TRUE,
                                 !.board = lists[id].boardId, !.id = id,
                                 !.old = lists[id].position,
                                 !.new = AppendPosition(lists, lists[id].boardId),
                                 !.writes = 1]

\* --------------------------------------------------- ListController.deleteList
\* the lists after list.position move up, then the document is deleted
\* deleteList that moves the following lists the wrong way
deleteListEffect_up(ls, id) ==
  RemoveList(UpdateManyInc(ls, ls[id].boardId, ls[id].position + 1, Top, 0, 1), id)

deleteListEffect(ls, id) ==
  RemoveList(UpdateManyInc(ls, ls[id].boardId, ls[id].position + 1, Top, 0, -1), id)

\* a cardCount that skips the query and is always 0
cardCount_zero(cs, id) == 0

\* cardCount = Card.countDocuments({listId, isArchived: false})
cardCount(cs, id) == cs[id].active

deleteList(id, u) ==
  /\ budget > 0
  /\ budget' = budget - 1
  /\ pre' = lists
  /\ UNCHANGED <<inFlight, elsewhere>>
  /\ ins' = Age(ins)
  /\ UNCHANGED nextId
  /\ IF id \notin DOMAIN lists THEN
       /\ last' = Failure("deleteList", "not_found")
       /\ UNCHANGED <<boards, lists, cards>>
     ELSE IF \/ ~boards[lists[id].boardId].exists
             \/ ~hasPermission(boards[lists[id].boardId], u, "admin") THEN
       /\ last' = Failure("deleteList", "forbidden")
       /\ UNCHANGED <<boards, lists, cards>>
     ELSE IF cardCount(cards, id) > 0 THEN
       /\ last' = Failure("deleteList", "bad_request")
       /\ UNCHANGED <<boards, lists, cards>>
     ELSE
       /\ lists' = deleteListEffect(lists, id)
       \* Card.deleteMany({listId})
       /\ cards' = [i \in DOMAIN cards \ {id} |-> cards[i]]
       /\ boards' = [boards EXCEPT ![lists[id].boardId].totalLists =
                                      IF lists[id].isArchived THEN @ ELSE @ - 1]
       /\ last' = [NoLast EXCEPT !.op = "deleteList",
                                 !.status = StatusAfterEmit("list_deleted"),
                                 !.committed = TRUE,
                                 !.board = lists[id].boardId, !.id = id,
                                 !.old = lists[id].position,
                                 !.writes = 2,
                                 !.emit = EmitOutcome("list_deleted", lists[id].boardId)]

\* ----------------------------------------------------------- Card collection
\* the card service stores a new active card in a non-archived list
addCard(id) ==
  /\ budget > 0
  /\ id \in DOMAIN lists
  /\ ~lists[id].isArchived
  /\ cards[id].active < MaxCards
  /\ budget' = budget - 1
  /\ pre' = lists
  /\ UNCHANGED <<inFlight, elsewhere>>
  /\ ins' = Age(ins)
  /\ cards' = [cards EXCEPT ![id].active = @ + 1]
  /\ last' = [NoLast EXCEPT !.op = "addCard", !.status = "ok",
                            !.board = lists[id].boardId, !.id = id]
  /\ UNCHANGED <<boards, lists, nextId>>

\* ------------------------------------------------------------ specification
\* requests are handled one at a time, each to completion
Next ==
  \/ \E b \in Boards, u \in Users, ws \in {"missing", "denied", "ok"} : createBoard(b, u, ws)
  \/ \E b \in Boards, u \in Users, p \in 0 .. MaxPos : createList(b, u, TRUE, p)
  \/ \E b \in Boards, u \in Users : createList(b, u, FALSE, 0)
  \/ \E id \in 1 .. nextId, u \in Users, p \in 0 .. MaxPos : moveList(id, u, p)
  \/ \E id \in 1 .. nextId, u \in Users : archiveList(id, u)
  \/ \E id \in 1 .. nextId, u \in Users : unarchiveList(id, u)
  \/ \E id \in 1 .. nextId, u \in Users : deleteList(id, u)
  \/ \E id \in 1 .. nextId : addCard(id)

Spec == Init /\ [][Next]_vars

\* a board of user u1 whose n lists earlier requests left at positions 0 .. n-1
InitPos ==
  \E n \in 0 .. MaxN :
    /\ boards = [b \in Boards |->
                   IF b = "b1"
                   THEN [exists |-> TRUE, owner |-> "u1",
                         members |-> [x \in Users |-> IF x = "u1" THEN "admin" ELSE "none"],
                         totalLists |-> n, totalCards |-> 0]
                   ELSE NoBoard]
    /\ lists = [i \in 1 .. n |-> [boardId |-> "b1", position |-> i - 1, isArchived |-> FALSE]]
    /\ cards = [i \in 1 .. n |-> [active |-> 0, archived |-> 0]]
    /\ nextId = n + 1
    /\ budget = PosOps
    /\ last = NoLast
    /\ pre = lists
    /\ ins = NoIns
    /\ req = [r \in Requests |-> Idle]
    /\ overlap = FALSE
    /\ InitRealtime
    /\ InitDownstream

SpecPos == InitPos /\ [][Next]_vars

\* ---------------------------------------------- lists archived more than once
CardOps == 4

\* a board of user u1 with one or two empty lists
InitCards ==
  \E n \in 1 .. 2 :
    /\ boards = [b \in Boards |->
                   IF b = "b1"
                   THEN [exists |-> TRUE, owner |-> "u1",
                         members |-> [x \in Users |-> IF x = "u1" THEN "admin" ELSE "none"],
                         totalLists |-> n, totalCards |-> 0]
                   ELSE NoBoard]
    /\ lists = [i \in 1 .. n |-> [boardId |-> "b1", position |-> i - 1, isArchived |-> FALSE]]
    /\ cards = [i \in 1 .. n |-> [active |-> 0, archived |-> 0]]
    /\ nextId = n + 1
    /\ budget = CardOps
    /\ last = NoLast
    /\ pre = lists
    /\ ins = NoIns
    /\ req = [r \in Requests |-> Idle]
    /\ overlap = FALSE
    /\ InitRealtime
    /\ InitDownstream

NextCards ==
  \/ \E id \in 1 .. nextId : addCard(id)
  \/ \E id \in 1 .. nextId, u \in Users : archiveList(id, u)
  \/ \E id \in 1 .. nextId, u \in Users : unarchiveList(id, u)

SpecCards == InitCards /\ [][NextCards]_vars

\* ------------------------------------------------- requests that are refused
FailN == 1

\* a board of user u1 with up to FailN lists to which addMember may have
\* added the other user with a role below admin
InitFail ==
  \E n \in 1 .. FailN, role \in {"none", "viewer", "member"} :
    /\ boards = [b \in Boards |->
                   IF b = "b1"
                   THEN [exists |-> TRUE, owner |-> "u1",
                         members |-> [x \in Users |-> IF x = "u1" THEN "admin" ELSE role],
                         totalLists |-> n, totalCards |-> 0]
                   ELSE NoBoard]
    /\ lists = [i \in 1 .. n |-> [boardId |-> "b1", position |-> i - 1, isArchived |-> FALSE]]
    /\ cards = [i \in 1 .. n |-> [active |-> 0, archived |-> 0]]
    /\ nextId = n + 1
    /\ budget = PosOps
    /\ last = NoLast
    /\ pre = lists
    /\ ins = NoIns
    /\ req = [r \in Requests |-> Idle]
    /\ overlap = FALSE
    /\ InitRealtime
    /\ InitDownstream

NextFail ==
  \/ \E b \in Boards, u \in Users, given \in BOOLEAN, p \in 0 .. FailN :
       createList(b, u, given, p)
  \/ \E id \in 1 .. nextId, u \in Users, p \in 0 .. FailN : moveList(id, u, p)
  \/ \E id \in 1 .. nextId, u \in Users : archiveList(id, u)
  \/ \E id \in 1 .. nextId, u \in Users : unarchiveList(id, u)
  \/ \E id \in 1 .. nextId, u \in Users : deleteList(id, u)
  \/ \E id \in 1 .. nextId : addCard(id)

SpecFail == InitFail /\ [][NextFail]_vars

\* the non-archived lists of board b hold exactly the positions 0 .. n-1
Contiguous(ls, b) ==
  /\ {ls[id].position : id \in NonArchived(ls, b)} = 0 .. (Cardinality(NonArchived(ls, b)) - 1)
  /\ \A i, j \in NonArchived(ls, b) : ls[i].position = ls[j].position => i = j

\* ------------------------------------------- handlers, one await at a time
\* Each action below is the code of a handler from one await on a storage
\* call up to the next await; between two of them the event loop may run a
\* step of the other request.
At(r, op, pc) == req[r].op = op /\ req[r].pc = pc

Goto(r, pc) == [req EXCEPT ![r].pc = pc]

Finish(r, status) == [req EXCEPT ![r].pc = "done", ![r].status = status]

\* a request arrives: POST /lists, PATCH /:listId/move, PATCH /:listId/archive
\* or DELETE /:listId
Start(r, op, id, b, u, given, p) ==
  /\ req[r].pc = "idle"
  /\ req' = [req EXCEPT ![r] = [Idle EXCEPT !.op = op, !.id = id, !.b = b, !.u = u,
                                            !.given = given, !.p = p,
                                            !.pc = IF op = "createList" THEN "findBoard"
                                                   ELSE "findList"]]
  /\ overlap' = (overlap \/ \E o \in Requests \ {r} : req[o].pc \notin {"idle", "done"})
  /\ UNCHANGED <<boards, lists, cards, nextId>>
  /\ UNCHANGED <<history, elsewhere>>

\* createList: board = await Board.findById(boardId), then the permission checks
clFindBoard(r) ==
  /\ At(r, "createList", "findBoard")
  /\ req' = IF ~boards[req[r].b].exists THEN Finish(r, "not_found")
            ELSE IF \/ ~isMember(boards[req[r].b], req[r].u)
                    \/ ~hasPermission(boards[req[r].b], req[r].u, "member")
            THEN Finish(r, "forbidden")
            ELSE [req EXCEPT ![r].tl = boards[req[r].b].totalLists,
                             ![r].tc = boards[req[r].b].totalCards,
                             ![r].pc = IF req[r].given THEN "shift" ELSE "findMax"]
  /\ UNCHANGED <<boards, lists, cards, nextId, overlap>>
  /\ UNCHANGED <<history, elsewhere>>

\* createList: maxPosition = await List.findOne(...).sort({position: -1})
clFindMax(r) ==
  /\ At(r, "createList", "findMax")
  /\ req' = [req EXCEPT ![r].pos = AppendPosition(lists, req[r].b), ![r].pc = "save"]
  /\ UNCHANGED <<boards, lists, cards, nextId, overlap>>
  /\ UNCHANGED <<history, elsewhere>>

\* createList: await List.updateMany({position: {$gte: finalPosition}}, {$inc: 1})
clShift(r) ==
  /\ At(r, "createList", "shift")
  /\ lists' = UpdateManyInc(lists, req[r].b, req[r].p, Top, 0, 1)
  /\ req' = [req EXCEPT ![r].pos = req[r].p, ![r].pc = "save"]
  /\ UNCHANGED <<boards, cards, nextId, overlap>>
  /\ UNCHANGED <<history, elsewhere>>

\* createList: await list.save()
clSave(r) ==
  /\ At(r, "createList", "save")
  /\ lists' = InsertList(lists, nextId, req[r].b, req[r].pos)
  /\ cards' = [i \in DOMAIN lists' |->
                 IF i \in DOMAIN cards THEN cards[i] ELSE [active |-> 0, archived |-> 0]]
  /\ nextId' = nextId + 1
  /\ req' = [req EXCEPT ![r].id = nextId, ![r].pc = "boardSave"]
  /\ UNCHANGED <<boards, overlap>>
  /\ UNCHANGED <<history, elsewhere>>

\* createList: await list.save() rejects (storage unavailable); asyncHandler
\* passes the error to the error middleware and the handler ends there
clSaveFails(r) ==
  /\ At(r, "createList", "save")
  /\ req' = Finish(r, "error")
  /\ UNCHANGED <<boards, lists, cards, nextId, overlap>>
  /\ UNCHANGED <<history, elsewhere>>

\* createList: board.statistics.totalLists += 1; await board.save(); the
\* activity log, the event, the broadcast and the response follow
clBoardSave(r) ==
  /\ At(r, "createList", "boardSave")
  /\ boards' = [boards EXCEPT ![req[r].b].totalLists = req[r].tl + 1]
  /\ req' = Finish(r, StatusAfterEmit("list_created"))
  /\ UNCHANGED <<lists, cards, nextId, overlap>>
  /\ UNCHANGED <<history, elsewhere>>

\* moveList, archiveList, deleteList: list = await List.findById(listId)
FindList(r) ==
  /\ req[r].op \in {"moveList", "archiveList", "deleteList"}
  /\ req[r].pc = "findList"
  /\ req' = IF req[r].id \notin DOMAIN lists THEN Finish(r, "not_found")
            ELSE [req EXCEPT ![r].doc = lists[req[r].id],
                             ![r].b = lists[req[r].id].boardId,
                             ![r].pc = "findBoard"]
  /\ UNCHANGED <<boards, lists, cards, nextId, overlap>>
  /\ UNCHANGED <<history, elsewhere>>

\* moveList: board = await Board.findById(list.boardId), the permission check
\* and the oldPosition === newPosition return
mvFindBoard(r) ==
  /\ At(r, "moveList", "findBoard")
  /\ req' = IF \/ ~boards[req[r].b].exists
               \/ ~hasPermission(boards[req[r].b], req[r].u, "member")
            THEN Finish(r, "forbidden")
            ELSE IF req[r].doc.position = req[r].p THEN Finish(r, "ok")
            ELSE Goto(r, "shift")
  /\ UNCHANGED <<boards, lists, cards, nextId, overlap>>
  /\ UNCHANGED <<history, elsewhere>>

\* moveList: await List.updateMany(...) with the oldPosition of the loaded document
mvShift(r) ==
  /\ At(r, "moveList", "shift")
  /\ lists' = IF req[r].p > req[r].doc.position
              THEN UpdateManyInc(lists, req[r].b, req[r].doc.position + 1, req[r].p,
                                 req[r].id, -1)
              ELSE UpdateManyInc(lists, req[r].b, req[r].p, req[r].doc.position - 1,
                                 req[r].id, 1)
  /\ req' = Goto(r, "save")
  /\ UNCHANGED <<boards, cards, nextId, overlap>>
  /\ UNCHANGED <<history, elsewhere>>

\* moveList: list.position = newPosition; await list.save(). save() of a
\* document that has been deleted meanwhile rejects and writes nothing.
mvSave(r) ==
  /\ At(r, "moveList", "save")
  /\ IF req[r].id \in DOMAIN lists
     THEN /\ lists' = [lists EXCEPT ![req[r].id].position = req[r].p]
          /\ req' = Finish(r, StatusAfterEmit("list_moved"))
     ELSE /\ UNCHANGED lists
          /\ req' = Finish(r, "error")
  /\ UNCHANGED <<boards, cards, nextId, overlap>>
  /\ UNCHANGED <<history, elsewhere>>

\* archiveList: board = await Board.findById(...), the permission check and
\* the 'already archived' return
arFindBoard(r) ==
  /\ At(r, "archiveList", "findBoard")
  /\ req' = IF \/ ~boards[req[r].b].exists
               \/ ~hasPermission(boards[req[r].b], req[r].u, "member")
            THEN Finish(r, "forbidden")
            ELSE IF req[r].doc.isArchived THEN Finish(r, "bad_request")
            ELSE [req EXCEPT ![r].tl = boards[req[r].b].totalLists,
                             ![r].tc = boards[req[r].b].totalCards,
                             ![r].pc = "save"]
  /\ UNCHANGED <<boards, lists, cards, nextId, overlap>>
  /\ UNCHANGED <<history, elsewhere>>

\* archiveList: list.isArchived = true; await list.save()
arSave(r) ==
  /\ At(r, "archiveList", "save")
  /\ IF req[r].id \in DOMAIN lists
     THEN /\ lists' = [lists EXCEPT ![req[r].id].isArchived = TRUE]
          /\ req' = Goto(r, "cards")
     ELSE /\ UNCHANGED lists
          /\ req' = Finish(r, "error")
  /\ UNCHANGED <<boards, cards, nextId, overlap>>
  /\ UNCHANGED <<history, elsewhere>>

\* archiveList: await Card.updateMany({listId, isArchived: false}, {isArchived: true})
arCards(r) ==
  /\ At(r, "archiveList", "cards")
  /\ cards' = [i \in DOMAIN cards |->
                 IF i = req[r].id
                 THEN [active |-> 0, archived |-> cards[i].archived + cards[i].active]
                 ELSE cards[i]]
  /\ req' = Goto(r, "shift")
  /\ UNCHANGED <<boards, lists, nextId, overlap>>
  /\ UNCHANGED <<history, elsewhere>>

\* archiveList: await List.updateMany({position: {$gt: list.position}}, {$inc: -1})
arShift(r) ==
  /\ At(r, "archiveList", "shift")
  /\ lists' = UpdateManyInc(lists, req[r].b, req[r].doc.position + 1, Top, 0, -1)
  /\ req' = Goto(r, "count")
  /\ UNCHANGED <<boards, cards, nextId, overlap>>
  /\ UNCHANGED <<history, elsewhere>>

\* archiveList: archivedCardCount = await Card.countDocuments({listId, isArchived: true})
arCount(r) ==
  /\ At(r, "archiveList", "count")
  /\ req' = [req EXCEPT ![r].cnt = IF req[r].id \in DOMAIN cards
                                   THEN cards[req[r].id].archived ELSE 0,
                        ![r].pc = "boardSave"]
  /\ UNCHANGED <<boards, lists, cards, nextId, overlap>>
  /\ UNCHANGED <<history, elsewhere>>

\* archiveList: await board.save(); the activity log, the broadcast through
\* io.listHandlers.list_archived and the response follow
arBoardSave(r) ==
  /\ At(r, "archiveList", "boardSave")
  /\ boards' = [boards EXCEPT ![req[r].b].totalLists = req[r].tl - 1,
                              ![req[r].b].totalCards = req[r].tc - req[r].cnt]
  /\ req' = Finish(r, StatusAfterEmit("list_archived"))
  /\ UNCHANGED <<lists, cards, nextId, overlap>>
  /\ UNCHANGED <<history, elsewhere>>

\* deleteList: board = await Board.findById(...) and the admin check
deFindBoard(r) ==
  /\ At(r, "deleteList", "findBoard")
  /\ req' = IF \/ ~boards[req[r].b].exists
               \/ ~hasPermission(boards[req[r].b], req[r].u, "admin")
            THEN Finish(r, "forbidden")
            ELSE [req EXCEPT ![r].tl = boards[req[r].b].totalLists,
                             ![r].tc = boards[req[r].b].totalCards,
                             ![r].pc = "count"]
  /\ UNCHANGED <<boards, lists, cards, nextId, overlap>>
  /\ UNCHANGED <<history, elsewhere>>

\* deleteList: cardCount = await Card.countDocuments({listId, isArchived: false})
deCount(r) ==
  /\ At(r, "deleteList", "count")
  /\ req' = IF req[r].id \in DOMAIN cards /\ cards[req[r].id].active > 0
            THEN Finish(r, "bad_request")
            ELSE Goto(r, "cards")
  /\ UNCHANGED <<boards, lists, cards, nextId, overlap>>
  /\ UNCHANGED <<history, elsewhere>>

\* deleteList: await Card.deleteMany({listId})
deCards(r) ==
  /\ At(r, "deleteList", "cards")
  /\ cards' = [i \in DOMAIN cards \ {req[r].id} |-> cards[i]]
  /\ req' = Goto(r, "shift")
  /\ UNCHANGED <<boards, lists, nextId, overlap>>
  /\ UNCHANGED <<history, elsewhere>>

\* deleteList: await List.updateMany({position: {$gt: list.position}}, {$inc: -1})
deShift(r) ==
  /\ At(r, "deleteList", "shift")
  /\ lists' = UpdateManyInc(lists, req[r].b, req[r].doc.position + 1, Top, 0, -1)
  /\ req' = Goto(r, "delete")
  /\ UNCHANGED <<boards, cards, nextId, overlap>>
  /\ UNCHANGED <<history, elsewhere>>

\* deleteList: await List.findByIdAndDelete(listId)
deDelete(r) ==
  /\ At(r, "deleteList", "delete")
  /\ lists' = RemoveList(lists, req[r].id)
  /\ req' = Goto(r, "boardSave")
  /\ UNCHANGED <<boards, cards, nextId, overlap>>
  /\ UNCHANGED <<history, elsewhere>>

\* deleteList: await board.save(); the activity log, the broadcast and the
\* response follow
deBoardSave(r) ==
  /\ At(r, "deleteList", "boardSave")
  /\ boards' = [boards EXCEPT ![req[r].b].totalLists =
                                IF req[r].doc.isArchived THEN req[r].tl ELSE req[r].tl - 1]
  /\ req' = Finish(r, StatusAfterEmit("list_deleted"))
  /\ UNCHANGED <<lists, cards, nextId, overlap>>
  /\ UNCHANGED <<history, elsewhere>>

\* the board "b1" as createBoard of user u1 leaves it, and no request in flight
InitConc ==
  /\ boards = [b \in Boards |->
                 IF b = "b1"
                 THEN [exists |-> TRUE, owner |-> "u1",
                       members |-> [x \in Users |-> IF x = "u1" THEN "admin" ELSE "none"],
                       totalLists |-> DefaultLists, totalCards |-> 0]
                 ELSE NoBoard]
  /\ lists = createBoardLists(<<>>, 1, "b1")
  /\ cards = [i \in 1 .. DefaultLists |-> [active |-> 0, archived |-> 0]]
  /\ nextId = DefaultLists + 1
  /\ budget = 0
  /\ last = NoLast
  /\ pre = lists
  /\ ins = NoIns
  /\ req = [r \in Requests |-> Idle]
  /\ overlap = FALSE
  /\ InitRealtime
  /\ InitDownstream

NextConc ==
  \/ \E r \in Requests, u \in Users, p \in 0 .. MaxPos :
       Start(r, "createList", 0, "b1", u, TRUE, p)
  \/ \E r \in Requests, u \in Users :
       Start(r, "createList", 0, "b1", u, FALSE, 0)
  \/ \E r \in Requests, id \in 1 .. nextId, u \in Users, p \in 0 .. MaxPos :
       Start(r, "moveList", id, "none", u, FALSE, p)
  \/ \E r \in Requests, id \in 1 .. nextId, u \in Users :
       Start(r, "archiveList", id, "none", u, FALSE, 0)
  \/ \E r \in Requests, id \in 1 .. nextId, u \in Users :
       Start(r, "deleteList", id, "none", u, FALSE, 0)
  \/ \E r \in Requests : clFindBoard(r)
  \/ \E r \in Requests : clFindMax(r)
  \/ \E r \in Requests : clShift(r)
  \/ \E r \in Requests : clSave(r)
  \/ \E r \in Requests : clBoardSave(r)
  \/ \E r \in Requests : FindList(r)
  \/ \E r \in Requests : mvFindBoard(r)
  \/ \E r \in Requests : mvShift(r)
  \/ \E r \in Requests : mvSave(r)
  \/ \E r \in Requests : arFindBoard(r)
  \/ \E r \in Requests : arSave(r)
  \/ \E r \in Requests : arCards(r)
  \/ \E r \in Requests : arShift(r)
  \/ \E r \in Requests : arCount(r)
  \/ \E r \in Requests : arBoardSave(r)
  \/ \E r \in Requests : deFindBoard(r)
  \/ \E r \in Requests : deCount(r)
  \/ \E r \in Requests : deCards(r)
  \/ \E r \in Requests : deShift(r)
  \/ \E r \in Requests : deDelete(r)
  \/ \E r \in Requests : deBoardSave(r)

SpecConc == InitConc /\ [][NextConc]_vars

\* --------------------------------------------------------- socketHandler
\* the connected sockets that are in a room
Members(rms, room) == {s \in Sessions : room \in rms[s]}

\* io.to(room).emit(event): every socket in the room receives it
IoEmit(rms, event, room) ==
  [event |-> event, room |-> room, from |-> "server", to |-> Members(rms, room)]

\* socket.to(room).emit(event): every socket in the room but the sender
SocketEmit(rms, s, event, room) ==
  [event |-> event, room |-> room, from |-> s, to |-> Members(rms, room) \ {s}]

\* socket.join(`board:${boardId}`), then user_joined_board to the others
joinBoardRoom(rms, s, boardId) ==
  LET joined == [rms EXCEPT ![s] = @ \cup {BoardRoom(boardId)}]
  IN [rooms |-> joined,
      emit |-> SocketEmit(joined, s, "user_joined_board", BoardRoom(boardId))]

\* socket.leave(`board:${boardId}`), then user_left_board to the others
leaveBoardRoom(rms, s, boardId) ==
  LET left == [rms EXCEPT ![s] = @ \ {BoardRoom(boardId)}]
  IN [rooms |-> left,
      emit |-> SocketEmit(left, s, "user_left_board", BoardRoom(boardId))]

\* io.use(authenticateSocket) and io.on('connection'): a socket with a valid
\* token joins its personal room; any other handshake is refused
connection(s, token) ==
  /\ ~connected[s]
  \* the timer of the socket this session had before has fired
  /\ typingTimer[s] = NoTimer
  /\ IF token = "valid"
     THEN /\ connected' = [connected EXCEPT ![s] = TRUE]
          /\ rooms' = [rooms EXCEPT ![s] = {UserRoom(SessionUser(s))}]
     ELSE UNCHANGED <<connected, rooms>>
  /\ emitted' = <<>>
  /\ outcome' = NoOutcome
  /\ UNCHANGED currentBoard
  /\ UNCHANGED <<storage, history, inFlight, side, downstream>>

\* socket.on('join_board')
join_board(s, boardId) ==
  /\ connected[s]
  /\ LET leaving == currentBoard[s] # "null" /\ currentBoard[s] # boardId
         l == leaveBoardRoom(rooms, s, currentBoard[s])
         j == joinBoardRoom(IF leaving THEN l.rooms ELSE rooms, s, boardId)
     IN /\ rooms' = j.rooms
        /\ emitted' = IF leaving THEN <<l.emit, j.emit>> ELSE <<j.emit>>
  /\ currentBoard' = [currentBoard EXCEPT ![s] = boardId]
  /\ outcome' = NoOutcome
  /\ UNCHANGED connected
  /\ UNCHANGED <<storage, history, inFlight, side, downstream>>

\* socket.on('leave_board')
leave_board(s, boardId) ==
  /\ connected[s]
  /\ LET l == leaveBoardRoom(rooms, s, boardId)
     IN /\ rooms' = l.rooms
        /\ emitted' = <<l.emit>>
  /\ currentBoard' = [currentBoard EXCEPT ![s] = "null"]
  /\ outcome' = NoOutcome
  /\ UNCHANGED connected
  /\ UNCHANGED <<storage, history, inFlight, side, downstream>>

\* socket.on('disconnect'): Socket.IO has taken the socket out of all its
\* rooms before the handler runs; the socket object is then dropped
disconnect(s) ==
  /\ connected[s]
  /\ LET gone == [rooms EXCEPT ![s] = {}]
         l == leaveBoardRoom(gone, s, currentBoard[s])
     IN /\ rooms' = gone
        /\ emitted' = IF currentBoard[s] # "null"
                      THEN <<l.emit,
                             SocketEmit(gone, s, "user_presence_updated",
                                        BoardRoom(currentBoard[s]))>>
                      ELSE <<>>
  /\ connected' = [connected EXCEPT ![s] = FALSE]
  /\ currentBoard' = [currentBoard EXCEPT ![s] = "null"]
  /\ outcome' = NoOutcome
  /\ UNCHANGED <<storage, history, inFlight, side, downstream>>

\* the list and board mutations that have a broadcast step
MutationOps == {"createList", "updateList", "moveList", "archiveList", "deleteList",
                "createBoard", "updateBoard", "archiveBoard", "addMember",
                "removeMember"}

\* the handler each controller calls on io.listHandlers / io.boardHandlers
BroadcastHandler(op) ==
  CASE op = "createList" -> "list_created"
    [] op = "updateList" -> "list_updated"
    [] op = "moveList" -> "list_moved"
    [] op = "archiveList" -> "list_archived"
    [] op = "deleteList" -> "list_deleted"
    [] op = "createBoard" -> "board_created"
    [] op = "updateBoard" -> "board_updated"
    [] op = "archiveBoard" -> "board_archived"
    [] op = "addMember" -> "board_member_added"
    [] op = "removeMember" -> "board_member_removed"

\* what the handlers of handleListUpdates / handleBoardUpdates emit: the event
\* to room board:{boardId}, and for the two member events a second one to the
\* personal room of that member
HandlerEmits(rms, handler, b, m) ==
  IF handler = "board_member_added"
  THEN <<IoEmit(rms, handler, BoardRoom(b)), IoEmit(rms, "added_to_board", UserRoom(m))>>
  ELSE IF handler = "board_member_removed"
  THEN <<IoEmit(rms, handler, BoardRoom(b)), IoEmit(rms, "removed_from_board", UserRoom(m))>>
  ELSE <<IoEmit(rms, handler, BoardRoom(b))>>

\* the broadcast step of a controller whose mutation of board b (concerning
\* member m) is committed: if (io && io.listHandlers) io.listHandlers.x(data).
\* A handler that socketHandler did not define makes the call throw.
broadcast(op, b, m) ==
  /\ emitted' = IF HandlerExists(BroadcastHandler(op))
                THEN HandlerEmits(rooms, BroadcastHandler(op), b, m)
                ELSE <<>>
  /\ outcome' = [op |-> op, board |-> b, status |-> StatusAfterEmit(BroadcastHandler(op))]
  /\ UNCHANGED <<connected, rooms, currentBoard>>
  /\ UNCHANGED <<storage, history, inFlight, side, downstream>>

\* ------------------------------------------- client-originated socket events
CardIds == {"c1", "c2"}

\* socket.to(`board:${data.boardId}`).emit(event, {userId, cardId, boardId})
CardEmit(rms, s, event, boardId, cardId) ==
  [event |-> event, room |-> BoardRoom(boardId), from |-> s,
   to |-> Members(rms, BoardRoom(boardId)) \ {s}, card |-> cardId]

\* typingHandlers.start_typing: user_typing to the room named in the event,
\* clearTimeout of the timer there is, then a new timer of 3000 ms
start_typing(s, boardId, cardId) ==
  /\ connected[s]
  /\ emitted' = <<CardEmit(rooms, s, "user_typing", boardId, cardId)>>
  /\ typingTimer' = [typingTimer EXCEPT ![s] = [boardId |-> boardId, cardId |-> cardId]]
  /\ outcome' = NoOutcome
  /\ UNCHANGED <<connected, rooms, currentBoard>>
  /\ UNCHANGED <<storage, history, inFlight, downstream, auth, amqp>>

\* typingHandlers.stop_typing: user_stopped_typing, then the timer is cleared
stop_typing(s, boardId, cardId) ==
  /\ connected[s]
  /\ emitted' = <<CardEmit(rooms, s, "user_stopped_typing", boardId, cardId)>>
  /\ typingTimer' = [typingTimer EXCEPT ![s] = NoTimer]
  /\ outcome' = NoOutcome
  /\ UNCHANGED <<connected, rooms, currentBoard>>
  /\ UNCHANGED <<storage, history, inFlight, downstream, auth, amqp>>

\* the callback of setTimeout(..., 3000) in start_typing, with the data of
\* the start_typing that set it; it runs whether or not the socket is still
\* connected
typingTimeout(s) ==
  /\ typingTimer[s] # NoTimer
  /\ emitted' = <<CardEmit(rooms, s, "user_stopped_typing",
                           typingTimer[s].boardId, typingTimer[s].cardId)>>
  /\ typingTimer' = [typingTimer EXCEPT ![s] = NoTimer]
  /\ outcome' = NoOutcome
  /\ UNCHANGED <<connected, rooms, currentBoard>>
  /\ UNCHANGED <<storage, history, inFlight, downstream, auth, amqp>>

\* cursorHandlers.cursor_move
cursor_move(s, boardId, cardId) ==
  /\ connected[s]
  /\ emitted' = <<CardEmit(rooms, s, "cursor_moved", boardId, cardId)>>
  /\ outcome' = NoOutcome
  /\ UNCHANGED <<connected, rooms, currentBoard>>
  /\ UNCHANGED <<storage, history, inFlight, downstream, side>>

\* cursorHandlers.cursor_leave
cursor_leave(s, boardId, cardId) ==
  /\ connected[s]
  /\ emitted' = <<CardEmit(rooms, s, "cursor_left", boardId, cardId)>>
  /\ outcome' = NoOutcome
  /\ UNCHANGED <<connected, rooms, currentBoard>>
  /\ UNCHANGED <<storage, history, inFlight, downstream, side>>

\* socket.on('update_presence')
update_presence(s, boardId) ==
  /\ connected[s]
  /\ emitted' = <<SocketEmit(rooms, s, "user_presence_updated", BoardRoom(boardId))>>
  /\ outcome' = NoOutcome
  /\ UNCHANGED <<connected, rooms, currentBoard>>
  /\ UNCHANGED <<storage, history, inFlight, downstream, side>>

NextTyping ==
  \/ \E s \in Sessions : connection(s, "valid")
  \/ \E s \in Sessions, b \in Boards : join_board(s, b)
  \/ \E s \in Sessions, b \in Boards : leave_board(s, b)
  \/ \E s \in Sessions : disconnect(s)
  \/ \E s \in Sessions, b \in Boards, c \in CardIds : start_typing(s, b, c)
  \/ \E s \in Sessions, b \in Boards, c \in CardIds : stop_typing(s, b, c)
  \/ \E s \in Sessions : typingTimeout(s)
  \/ \E s \in Sessions, b \in Boards, c \in CardIds : cursor_move(s, b, c)
  \/ \E s \in Sessions, b \in Boards, c \in CardIds : cursor_leave(s, b, c)
  \/ \E s \in Sessions, b \in Boards : update_presence(s, b)

SpecTyping == Init /\ [][NextTyping]_vars

\* a timer that is set and not cleared fires
SpecTypingFair == SpecTyping /\ \A s \in Sessions : WF_vars(typingTimeout(s))

\* ------------------------------------------------------ AuthController.login
MaxClock == 8

\* 60 * 60 * 1000 ms, in ticks of the clock
Hour == 2

\* if (this.loginAttempts >= 5)
LockAfter == 5

\* userSchema.virtual('isLocked'): !!(this.lockUntil && this.lockUntil > Date.now())
isLocked(doc, now) == doc.lockUntil # NoLock /\ doc.lockUntil > now

\* userSchema.methods.updateLoginInfo
updateLoginInfo(doc) == [doc EXCEPT !.loginAttempts = 0, !.lockUntil = NoLock]

\* userSchema.methods.handleFailedLogin
handleFailedLogin(doc, now) ==
  LET counted == [doc EXCEPT !.loginAttempts = @ + 1]
  IN IF counted.loginAttempts >= LockAfter
     THEN [counted EXCEPT !.lockUntil = now + Hour]
     ELSE counted

\* POST /login for the account, active, with a valid or an invalid password
login(valid) ==
  /\ IF isLocked(user, clock) THEN
       /\ attempt' = [attempt EXCEPT !.status = "locked"]
       /\ UNCHANGED user
     ELSE IF ~valid THEN
       /\ user' = handleFailedLogin(user, clock)
       /\ attempt' = [status |-> "invalid", streak |-> attempt.streak + 1]
     ELSE
       /\ user' = updateLoginInfo(user)
       /\ attempt' = [status |-> "ok", streak |-> 0]
  /\ UNCHANGED clock
  /\ UNCHANGED <<storage, history, inFlight, realtime, downstream, typing, amqp>>

\* AuthController.resetPassword with a valid token
resetPassword ==
  /\ user' = [user EXCEPT !.loginAttempts = 0, !.lockUntil = NoLock]
  /\ attempt' = [status |-> "reset", streak |-> 0]
  /\ UNCHANGED clock
  /\ UNCHANGED <<storage, history, inFlight, realtime, downstream, typing, amqp>>

\* time passes; a lock that expires ends the run of failures that caused it
tick ==
  /\ clock < MaxClock
  /\ clock' = clock + 1
  /\ attempt' = IF isLocked(user, clock) /\ ~isLocked(user, clock + 1)
                THEN [status |-> "expired", streak |-> 0]
                ELSE attempt
  /\ UNCHANGED user
  /\ UNCHANGED <<storage, history, inFlight, realtime, downstream, typing, amqp>>

NextAuth ==
  \/ \E valid \in BOOLEAN : login(valid)
  \/ resetPassword
  \/ tick

SpecAuth == Init /\ [][NextAuth]_vars

\* ------------------------------------------------ RabbitMQConnection.connect
\* connect() up to its first await: the channel if isConnected, or else
\* amqp.connect(RABBITMQ_URI) is called
connectCall(c) ==
  /\ callers[c].pc = "idle"
  /\ callers' = IF isConnected
                THEN [callers EXCEPT ![c].pc = "done", ![c].result = rabbitmq.channel]
                ELSE [callers EXCEPT ![c].pc = "amqp.connect"]
  /\ UNCHANGED <<rabbitmq, made, isConnected>>
  /\ UNCHANGED <<env, handlers, bound, queue, delivery, exchange>>
  /\ UNCHANGED <<storage, history, inFlight, realtime, tail, call, typing, auth>>

\* this.connection = await amqp.connect(...), then createChannel() is called
\* on the connection that this.connection names at that moment
connectionOpened(c) ==
  /\ callers[c].pc = "amqp.connect"
  /\ made' = [made EXCEPT !.connections = @ + 1]
  /\ rabbitmq' = [rabbitmq EXCEPT !.connection = made.connections + 1]
  /\ callers' = [callers EXCEPT ![c].pc = "createChannel",
                                ![c].connection = made.connections + 1]
  /\ UNCHANGED isConnected
  /\ UNCHANGED <<env, handlers, bound, queue, delivery, exchange>>
  /\ UNCHANGED <<storage, history, inFlight, realtime, tail, call, typing, auth>>

\* this.channel = await this.connection.createChannel(); this.isConnected =
\* true; return this.channel
channelOpened(c) ==
  /\ callers[c].pc = "createChannel"
  /\ made' = [made EXCEPT !.channels = @ + 1]
  /\ rabbitmq' = [rabbitmq EXCEPT !.channel = made.channels + 1]
  /\ isConnected' = TRUE
  /\ callers' = [callers EXCEPT ![c].pc = "done", ![c].result = made.channels + 1]
  /\ UNCHANGED <<env, handlers, bound, queue, delivery, exchange>>
  /\ UNCHANGED <<storage, history, inFlight, realtime, tail, call, typing, auth>>

NextConnect ==
  \E c \in Callers :
    \/ connectCall(c)
    \/ connectionOpened(c)
    \/ channelOpened(c)

SpecConnect == Init /\ [][NextConnect]_vars

NextRT ==
  \/ \E s \in Sessions, token \in {"valid", "invalid", "missing"} : connection(s, token)
  \/ \E s \in Sessions, b \in Boards : join_board(s, b)
  \/ \E s \in Sessions, b \in Boards : leave_board(s, b)
  \/ \E s \in Sessions : disconnect(s)
  \/ \E op \in MutationOps, b \in Boards, m \in Users : broadcast(op, b, m)

SpecRT == Init /\ [][NextRT]_vars

\* ----------------------------------------------------------------- Publisher
\* const routingPattern = routingKey || eventType.replace('.', '_')
RoutingPattern(eventType, routingKey) ==
  IF routingKey # NoKey THEN routingKey ELSE ReplaceFirstDot(eventType)

\* the message channel.publish hands to the exchange
Message(eventType, routingKey) ==
  [eventType |-> eventType, routingKey |-> RoutingPattern(eventType, routingKey),
   json |-> TRUE]

\* The topic exchange: a binding pattern matches a routing key word by word,
\* '*' standing for one word and '#' for any number of words, none included.
RECURSIVE TopicMatch(_, _)
TopicMatch(key, pat) ==
  IF Len(pat) = 0 THEN Len(key) = 0
  ELSE IF Head(pat) = Hash
  THEN \E i \in 0 .. Len(key) : TopicMatch(SubSeq(key, i + 1, Len(key)), Tail(pat))
  ELSE /\ Len(key) > 0
       /\ IF Head(pat) = Star THEN Head(key) # <<>> ELSE Head(key) = Head(pat)
       /\ TopicMatch(Tail(key), Tail(pat))

\* whether the exchange puts the message into the service's queue
Routes(m, patterns) ==
  \E p \in patterns : TopicMatch(Split(m.routingKey), Split(p))

\* What `await connection.connect()` followed by channel.publish comes to:
\* with isConnected the cached channel is used, and a message written to a
\* connection that is gone is lost without an error; otherwise amqp.connect
\* resolves, rejects or stays pending with the broker.
PublishResult(conn, broker) ==
  IF conn THEN (IF broker = "up" THEN "published" ELSE "lost")
  ELSE IF broker = "up" THEN "published"
  ELSE IF broker = "down" THEN "throw"
  ELSE "pending"

\* publishEvent(eventType, data, routingKey) once connect() has settled
publishEvent(eventType, routingKey) ==
  LET m == Message(eventType, routingKey)
  IN IF PublishResult(isConnected, env.broker) = "published"
     THEN /\ isConnected' = TRUE
          /\ exchange' = [msg |-> m, explicit |-> routingKey # NoKey,
                          routed |-> Routes(m, bound)]
          /\ queue' = IF Routes(m, bound) THEN Append(queue, m) ELSE queue
     ELSE UNCHANGED <<isConnected, exchange, queue>>

\* --------------------------------------------- a controller after its commit
\* the mutations of ListController and BoardController
TailOps == {"createList", "updateList", "moveList", "archiveList", "unarchiveList",
            "deleteList", "createBoard", "updateBoard", "archiveBoard",
            "deleteBoard", "addMember", "removeMember"}

\* the controllers that call publisher.publishEvent, each inside try / catch
Publishes(op) ==
  op \in {"createList", "updateList", "createBoard", "updateBoard", "deleteBoard"}

PublishedEventType(op) ==
  CASE op = "createList" -> LIST_CREATED
    [] op = "updateList" -> LIST_UPDATED
    [] op = "createBoard" -> BOARD_CREATED
    [] op = "updateBoard" -> BOARD_UPDATED
    [] op = "deleteBoard" -> BOARD_DELETED

\* the controllers that call a handler of io.listHandlers / io.boardHandlers
Broadcasts(op) == op \in {"createList", "updateList", "moveList", "archiveList",
                          "deleteList", "createBoard", "updateBoard", "archiveBoard",
                          "addMember", "removeMember"}

\* The synchronous end of a handler: the call of the io handler, then
\* res.status(...).json(...).  The call of a handler that socketHandler never
\* defined throws; asyncHandler passes the error on and the caller gets a 500.
EmitAndRespond(t) ==
  IF ~Broadcasts(t.op) THEN [t EXCEPT !.pc = "done", !.status = "ok"]
  ELSE [t EXCEPT !.pc = "done",
                 !.emit = EmitOutcome(BroadcastHandler(t.op), t.board),
                 !.status = StatusAfterEmit(BroadcastHandler(t.op))]

\* the storage calls of a mutation have resolved; the handler goes on to
\* `await ActivityLogger.logBoardActivity(...)`
commit(op, b) ==
  /\ tail.pc \in {"idle", "done"}
  /\ tail' = [NoTail EXCEPT !.op = op, !.board = b, !.committed = TRUE, !.pc = "log",
                            !.brokerUp = (env.broker = "up")]
  /\ UNCHANGED <<storage, history, inFlight, side, realtime, messaging, call>>

\* ActivityLogger.log has settled (it catches the error of a failed write):
\* a controller that publishes goes on to `await connection.connect()`, the
\* others run to their response
afterLog ==
  /\ tail.pc = "log"
  /\ env.activity # "hang"
  /\ tail' = IF Publishes(tail.op) THEN [tail EXCEPT !.pc = "connect"]
             ELSE EmitAndRespond(tail)
  /\ UNCHANGED <<storage, history, inFlight, side, realtime, messaging, call>>

\* connect() has settled: publish, or catch and log the error; then the
\* broadcast and the response
afterConnect ==
  /\ tail.pc = "connect"
  /\ PublishResult(isConnected, env.broker) # "pending"
  /\ publishEvent(PublishedEventType(tail.op), NoKey)
  /\ tail' = EmitAndRespond(
       [tail EXCEPT !.published =
                      IF PublishResult(isConnected, env.broker) = "published"
                      THEN Append(@, Message(PublishedEventType(tail.op), NoKey))
                      ELSE @,
                    !.pubFailed = (PublishResult(isConnected, env.broker) = "throw")])
  /\ UNCHANGED <<storage, history, inFlight, side, realtime, call>>
  /\ UNCHANGED <<env, handlers, bound, delivery>>

\* The broker and the activity store become reachable ("up"), refuse or
\* close connections ("down"), or stop answering ("hang").  A broker that
\* closes the connection fires connection.on('close'): isConnected = false.
setEnv(broker, activity) ==
  /\ env' = [broker |-> broker, activity |-> activity]
  /\ isConnected' = IF broker = "down" THEN FALSE ELSE isConnected
  /\ tail' = IF broker # "up" THEN [tail EXCEPT !.brokerUp = FALSE] ELSE tail
  /\ UNCHANGED <<storage, history, inFlight, side, realtime, call>>
  /\ UNCHANGED <<handlers, bound, queue, delivery, exchange>>

Reachability == {"up", "down", "hang"}

NextTail ==
  \/ \E op \in TailOps, b \in Boards : commit(op, b)
  \/ afterLog
  \/ afterConnect
  \/ \E broker \in Reachability, activity \in Reachability : setEnv(broker, activity)

SpecTail == Init /\ [][NextTail]_vars

\* the event loop runs every continuation whose promise has settled
SpecTailFair == SpecTail /\ WF_vars(afterLog) /\ WF_vars(afterConnect)

\* ------------------------------------------------------ Consumer.matchPattern
\* the for loop from the 0-based index i - 1 on, and the return after it
RECURSIVE matchLoop(_, _, _)
matchLoop(routingParts, patternParts, i) ==
  LET n == IF Len(routingParts) >= Len(patternParts)
           THEN Len(routingParts) ELSE Len(patternParts)
      routingPart == Part(routingParts, i)
      patternPart == Part(patternParts, i)
  IN IF i > n THEN Len(routingParts) = Len(patternParts)
     ELSE IF patternPart = Hash THEN TRUE
     ELSE IF patternPart = Star THEN matchLoop(routingParts, patternParts, i + 1)
     ELSE IF routingPart # patternPart THEN FALSE
     ELSE matchLoop(routingParts, patternParts, i + 1)

matchPattern(routingKey, pattern) ==
  IF pattern = Hash THEN TRUE
  ELSE matchLoop(Split(routingKey), Split(pattern), 1)

\* largest number of segments of a routing key or a pattern
MaxSegs == 3

\* the segments routing keys and patterns are built from, '' among them
KeySegs == {<<>>, <<"card">>, <<"moved">>, <<"urgent">>}
PatSegs == {<<>>, <<"card">>, Star, Hash}

\* the strings of 1 .. MaxSegs segments joined by dots
Strings(segs) ==
  {Join(ss) : ss \in UNION {[1 .. n -> segs] : n \in 1 .. MaxSegs}}

InitMatch ==
  /\ Started
  /\ \E routingKey \in Strings(KeySegs), pattern \in Strings(PatSegs) :
       call = [fn |-> "matchPattern", args |-> <<routingKey, pattern>>,
               done |-> FALSE, result |-> FALSE]

callMatchPattern ==
  /\ call.fn = "matchPattern"
  /\ ~call.done
  /\ call' = [call EXCEPT !.done = TRUE,
                          !.result = matchPattern(call.args[1], call.args[2])]
  /\ UNCHANGED <<storage, history, inFlight, side, realtime, messaging, tail>>

SpecMatch == InitMatch /\ [][callMatchPattern]_vars

\* ------------------------------------------------------------------ Consumer
\* largest number of messages ready in the queue when one more is published
MaxQueue == 2

\* the handler functions services register
Fns == {"h1", "h2"}

USER_STAR == <<"user", ".", "*">>
CARD_STAR == <<"card", ".", "*">>
LIST_HASH == <<"list", ".", "#">>
WORKSPACE_HASH == <<"workspace", ".", "#">>

\* the patterns handlers are registered for
HandlerPatterns == {USER_STAR, Hash}

\* the eventPatterns of startConsuming: its default ['#'], single patterns,
\* and the four of the board service
BindingSets == {{Hash}, {CARD_STAR}, {LIST_HASH}, {WORKSPACE_HASH},
                {USER_STAR, <<"workspace", ".", "*">>, <<"board", ".", "*">>, CARD_STAR}}

\* indices of the entries of the Map with this key
EntriesOf(hs, eventPattern) == {i \in 1 .. Len(hs) : hs[i].pattern = eventPattern}

\* this.handlers.set(eventPattern, handlerFunction): a key already in the
\* Map keeps its place and gets the new value, a new key goes to the end
registerHandler(hs, eventPattern, handlerFunction) ==
  IF EntriesOf(hs, eventPattern) # {}
  THEN [i \in 1 .. Len(hs) |->
          IF hs[i].pattern = eventPattern
          THEN [hs[i] EXCEPT !.handler = handlerFunction] ELSE hs[i]]
  ELSE Append(hs, [pattern |-> eventPattern, handler |-> handlerFunction])

\* a dispatch loop that keeps the last matching entry instead of breaking
Dispatch_last(hs, routingKey) ==
  LET hit == {i \in 1 .. Len(hs) : matchPattern(routingKey, hs[i].pattern)}
  IN IF hit = {} THEN <<>>
     ELSE <<hs[CHOOSE i \in hit : \A j \in hit : j <= i]>>

\* for (const [pattern, handler] of this.handlers) if (matchPattern) { await
\* handler(message); handled = true; break }: the entries invoked
Dispatch(hs, routingKey) ==
  LET hit == {i \in 1 .. Len(hs) : matchPattern(routingKey, hs[i].pattern)}
  IN IF hit = {} THEN <<>>
     ELSE <<hs[CHOOSE i \in hit : \A j \in hit : i <= j]>>

\* a callback whose catch block acknowledges as well
Settle_ackToo(d, threw) ==
  [d EXCEPT !.pc = "settled", !.threw = threw, !.acks = @ + 1,
            !.nacks = IF threw THEN @ + 1 ELSE @]

\* try { ...; channel.ack(msg) } catch (error) { channel.nack(msg, false, true) }
Settle(d, threw) ==
  IF threw THEN [d EXCEPT !.pc = "settled", !.threw = TRUE, !.nacks = @ + 1]
  ELSE [d EXCEPT !.pc = "settled", !.threw = FALSE, !.acks = @ + 1]

\* the broker puts a message rejected with requeue back at the head
Requeue(q, d) == IF d.nacks > 0 THEN <<d.msg>> \o q ELSE q

\* `user.${eventType.split('.')[1]}` of publishUserEvent
UserKey(eventType) == <<"user", Dot>> \o Split(eventType)[2]

\* rabbitmq.consumer.registerHandler(pattern, fn), before startConsuming as
\* in initRabbitMQ
register(eventPattern, handlerFunction) ==
  /\ bound = {}
  /\ handlers' = registerHandler(handlers, eventPattern, handlerFunction)
  /\ call' = [fn |-> "registerHandler", args |-> <<eventPattern, handlerFunction>>,
              done |-> TRUE, result |-> EntriesOf(handlers, eventPattern) # {}]
  /\ UNCHANGED <<storage, history, inFlight, side, realtime, tail>>
  /\ UNCHANGED <<env, isConnected, bound, queue, delivery, exchange>>

\* startConsuming(serviceName, eventPatterns): connect, assertQueue, bindQueue
\* for every pattern, prefetch(1), consume
startConsuming(eventPatterns) ==
  /\ bound = {}
  /\ PublishResult(isConnected, env.broker) = "published"
  /\ isConnected' = TRUE
  /\ bound' = eventPatterns
  /\ UNCHANGED <<storage, history, inFlight, side, realtime, tail, call>>
  /\ UNCHANGED <<env, handlers, queue, delivery, exchange>>

\* a service publishes: publishEvent(eventType, data) or
\* publishUserEvent(eventType, data), which passes a routing key
publish(eventType, routingKey) ==
  /\ Len(queue) < MaxQueue
  /\ PublishResult(isConnected, env.broker) # "pending"
  /\ publishEvent(eventType, routingKey)
  /\ UNCHANGED <<storage, history, inFlight, side, realtime, tail, call>>
  /\ UNCHANGED <<env, handlers, bound, delivery>>

\* a body that is not the JSON of an envelope, as another producer sends it
RawMessage(routingKey) == [eventType |-> <<>>, routingKey |-> routingKey, json |-> FALSE]

\* another producer puts such a message into the exchange
rawPublish(routingKey) ==
  /\ Len(queue) < MaxQueue
  /\ LET m == RawMessage(routingKey)
     IN /\ exchange' = [msg |-> m, explicit |-> TRUE, routed |-> Routes(m, bound)]
        /\ queue' = IF Routes(m, bound) THEN Append(queue, m) ELSE queue
  /\ UNCHANGED <<storage, history, inFlight, side, realtime, tail, call>>
  /\ UNCHANGED <<env, isConnected, handlers, bound, delivery>>

\* prefetch(1): the broker hands over the head of the queue once the
\* previous delivery is settled
deliver ==
  /\ bound # {}
  /\ delivery.pc \in {"idle", "settled"}
  /\ queue # <<>>
  /\ delivery' = [NoDelivery EXCEPT !.pc = "received", !.msg = Head(queue)]
  /\ queue' = Tail(queue)
  /\ UNCHANGED <<storage, history, inFlight, side, realtime, tail, call>>
  /\ UNCHANGED <<env, isConnected, handlers, bound, exchange>>

\* the consume callback up to its await: JSON.parse, then the dispatch loop
onMessage ==
  /\ delivery.pc = "received"
  /\ IF ~delivery.msg.json
     THEN /\ delivery' = Settle(delivery, TRUE)
          /\ queue' = Requeue(queue, delivery')
     ELSE IF Dispatch(handlers, delivery.msg.routingKey) = <<>>
     THEN /\ delivery' = Settle(delivery, FALSE)
          /\ queue' = Requeue(queue, delivery')
     ELSE /\ delivery' = [delivery EXCEPT
                            !.pc = "handling",
                            !.invoked = Dispatch(handlers, delivery.msg.routingKey)]
          /\ UNCHANGED queue
  /\ UNCHANGED <<storage, history, inFlight, side, realtime, tail, call>>
  /\ UNCHANGED <<env, isConnected, handlers, bound, exchange>>

\* `await handler(message)` has resolved or rejected
handlerSettled(threw) ==
  /\ delivery.pc = "handling"
  /\ delivery' = Settle(delivery, threw)
  /\ queue' = Requeue(queue, delivery')
  /\ UNCHANGED <<storage, history, inFlight, side, realtime, tail, call>>
  /\ UNCHANGED <<env, isConnected, handlers, bound, exchange>>

\* what the services publish: event type and routing key argument
Publications == {<<CARD_ASSIGNED, NoKey>>, <<WORKSPACE_MEMBER_ADDED, NoKey>>,
                 <<USER_REGISTERED, NoKey>>,
                 <<USER_REGISTERED, UserKey(USER_REGISTERED)>>}

NextMQ ==
  \/ \E p \in HandlerPatterns, fn \in Fns : register(p, fn)
  \/ \E ps \in BindingSets : startConsuming(ps)
  \/ \E pb \in Publications : publish(pb[1], pb[2])
  \/ rawPublish(USER_REGISTERED)
  \/ deliver
  \/ onMessage
  \/ \E threw \in BOOLEAN : handlerSettled(threw)

SpecMQ == Init /\ [][NextMQ]_vars

\* the broker delivers what is ready, and the callback runs
SpecMQFair ==
  /\ SpecMQ
  /\ WF_vars(deliver)
  /\ WF_vars(onMessage)
  /\ WF_vars(\E threw \in BOOLEAN : handlerSettled(threw))

\* ------------------------------------- hasPermission of Board and Workspace
\* the roles of the members schema, and "none" for a user without an entry
MemberRoles == {"viewer", "member", "admin"}

\* a board or workspace document: its owner and the role of each user's entry
Documents ==
  {[NoBoard EXCEPT !.exists = TRUE, !.owner = o, !.members = ms] :
     o \in Users, ms \in [Users -> MemberRoles \cup {"none"}]}

InitPerm ==
  /\ Started
  /\ \E doc \in Documents, userId \in Users, requiredRole \in MemberRoles :
       call = [fn |-> "hasPermission", args |-> <<doc, userId, requiredRole>>,
               done |-> FALSE, result |-> FALSE]

callHasPermission ==
  /\ call.fn = "hasPermission"
  /\ ~call.done
  /\ call' = [call EXCEPT
                !.done = TRUE,
                !.result = hasPermission(call.args[1], call.args[2], call.args[3])]
  /\ UNCHANGED <<storage, history, inFlight, side, realtime, messaging, tail>>

SpecPerm == InitPerm /\ [][callHasPermission]_vars

\* -------------------------------------------- createList whose save may fail
\* a board of user u1 with n lists at positions 0 .. n-1 and no request yet
InitSave ==
  \E n \in 0 .. MaxN :
    /\ boards = [b \in Boards |->
                   IF b = "b1"
                   THEN [exists |-> TRUE, owner |-> "u1",
                         members |-> [x \in Users |-> IF x = "u1" THEN "admin" ELSE "none"],
                         totalLists |-> n, totalCards |-> 0]
                   ELSE NoBoard]
    /\ lists = [i \in 1 .. n |-> [boardId |-> "b1", position |-> i - 1, isArchived |-> FALSE]]
    /\ cards = [i \in 1 .. n |-> [active |-> 0, archived |-> 0]]
    /\ nextId = n + 1
    /\ budget = 0
    /\ last = NoLast
    /\ pre = lists
    /\ ins = NoIns
    /\ req = [r \in Requests |-> Idle]
    /\ overlap = FALSE
    /\ InitRealtime
    /\ InitDownstream

\* POST /lists requests handled one after the other
NextSave ==
  \E r \in Requests :
    \/ /\ \A o \in Requests \ {r} : req[o].pc \in {"idle", "done"}
       /\ \E u \in Users :
            \/ \E p \in 0 .. MaxPos : Start(r, "createList", 0, "b1", u, TRUE, p)
            \/ Start(r, "createList", 0, "b1", u, FALSE, 0)
    \/ clFindBoard(r)
    \/ clFindMax(r)
    \/ clShift(r)
    \/ clSave(r)
    \/ clSaveFails(r)
    \/ clBoardSave(r)

SpecSave == InitSave /\ [][NextSave]_vars

\* ------------------------------------------------------------------ claims
\* number of non-archived lists of board b
Count(ls, b) == Cardinality(NonArchived(ls, b))

\* C1: after any sequence of completed list operations that starts from
\* createBoard's four default lists, the positions of every board's
\* non-archived lists are exactly 0 .. n-1, without gaps or duplicates.
C1_Contiguity ==
  \A b \in Boards : boards[b].exists => Contiguous(lists, b)

\* a request that alone keeps a contiguous board contiguous: it went through
\* its handler, and its position is within the board even after the other
\* request has removed a list
WellFormed(r) ==
  /\ req[r].op \in {"createList", "moveList", "archiveList", "deleteList"}
  /\ req[r].status \in {"ok", "error"}
  /\ req[r].op = "createList" => req[r].p <= DefaultLists - 1
  /\ req[r].op = "moveList" => req[r].p <= DefaultLists - 2

\* C2: position-changing requests on one board are serialized: for every
\* interleaving of the storage steps of two concurrent requests (createList,
\* moveList, archiveList, deleteList, on different lists and with positions
\* inside the board), once both have completed the positions of the
\* non-archived lists are exactly 0 .. n-1.
C2_Serialized ==
  (/\ \A r \in Requests : req[r].pc = "done" /\ WellFormed(r)
   /\ req[1].id # req[2].id)
  => Contiguous(lists, "b1")

\* the same two requests handled one after the other leave the board contiguous
C2_SerialRuns == overlap \/ C2_Serialized

\* C3: moveList of a non-archived list from old to new (0 <= new <= n-1) on a
\* contiguous board: the lists strictly after old up to new move down by one
\* (new > old), the lists from new up to before old move up by one
\* (new < old), the moved list ends at new, every other list keeps its
\* position, and with new = old nothing is written.
C3_MoveShifts ==
  (/\ last.op = "moveList"
   /\ last.status = "ok"
   /\ last.id \in DOMAIN pre
   /\ ~pre[last.id].isArchived
   /\ Contiguous(pre, last.board)
   /\ last.new <= Count(pre, last.board) - 1)
  =>
  LET old == pre[last.id].position
      new == last.new
      b == last.board
  IN /\ DOMAIN lists = DOMAIN pre
     /\ lists[last.id].position = new
     /\ \A j \in DOMAIN pre \ {last.id} :
          lists[j].position =
            IF j \in NonArchived(pre, b) /\ new > old
               /\ old < pre[j].position /\ pre[j].position <= new
            THEN pre[j].position - 1
            ELSE IF j \in NonArchived(pre, b) /\ new < old
                    /\ new <= pre[j].position /\ pre[j].position < old
            THEN pre[j].position + 1
            ELSE pre[j].position
     /\ (new = old => last.writes = 0 /\ lists = pre)

\* the spec's scenario: positions [0,1,2,3], the list at 3 moved to 1
C3_Witness ==
  /\ last.op = "moveList" /\ last.committed
  /\ last.old = 3 /\ last.new = 1
  /\ Count(pre, last.board) = 4 /\ Contiguous(pre, last.board)
  /\ ~pre[last.id].isArchived
  /\ lists[last.id].position = 1
  /\ \E j \in DOMAIN pre : pre[j].position = 1 /\ lists[j].position = 2
  /\ \E j \in DOMAIN pre : pre[j].position = 0 /\ lists[j].position = 0

\* C4: createList with a position p in 0 .. n moves every non-archived list of
\* the board at a position >= p up by one and stores the new list at p; with
\* no position the new list is stored one past the largest position, which
\* is n on a contiguous board, and at 0 on a board without non-archived lists.
C4_CreateInserts ==
  (last.op = "createList" /\ last.committed)
  =>
  LET b == last.board
      S == NonArchived(pre, b)
      n == Count(pre, b)
      new == lists[last.id].position
  IN /\ last.id \notin DOMAIN pre
     /\ lists[last.id].boardId = b /\ ~lists[last.id].isArchived
     /\ (last.given /\ last.new <= n) =>
          /\ new = last.new
          /\ \A j \in DOMAIN pre :
               lists[j].position =
                 IF j \in S /\ pre[j].position >= last.new
                 THEN pre[j].position + 1 ELSE pre[j].position
     /\ ~last.given =>
          /\ S = {} => new = 0
          /\ S # {} => (\A j \in S : pre[j].position < new)
          /\ S # {} => (\E j \in S : pre[j].position + 1 = new)
          /\ Contiguous(pre, b) => new = n
          /\ \A j \in DOMAIN pre : lists[j] = pre[j]

\* a list inserted in the middle of a board of at least three lists
C4_Witness ==
  /\ last.op = "createList" /\ last.committed /\ last.given
  /\ last.new = 1 /\ Count(pre, last.board) >= 3
  /\ lists[last.id].position = 1
  /\ \E j \in DOMAIN pre : pre[j].position = 1 /\ lists[j].position = 2
  /\ \E j \in DOMAIN pre : pre[j].position = 0 /\ lists[j].position = 0

\* C5: archiveList, or deleteList of a non-archived list, at position p moves
\* every non-archived list of the board at a position > p down by one and
\* leaves every list at a position < p unchanged.
C5_RemoveShifts ==
  (/\ last.op \in {"archiveList", "deleteList"}
   /\ last.committed
   /\ ~pre[last.id].isArchived)
  =>
  LET b == last.board
      p == pre[last.id].position
  IN \A j \in DOMAIN pre \ {last.id} :
       /\ j \in DOMAIN lists
       /\ (j \in NonArchived(pre, b) /\ pre[j].position > p)
            => lists[j].position = pre[j].position - 1
       /\ pre[j].position < p => lists[j].position = pre[j].position

\* a list removed from the middle: one list before it and one after it
C5_Witness ==
  /\ last.op \in {"archiveList", "deleteList"} /\ last.committed
  /\ ~pre[last.id].isArchived
  /\ \E j \in NonArchived(pre, last.board) :
       pre[j].position > pre[last.id].position /\ lists[j].position = pre[j].position - 1
  /\ \E j \in NonArchived(pre, last.board) :
       pre[j].position < pre[last.id].position /\ lists[j].position = pre[j].position

\* C6: a requested position beyond the end of a contiguous board is clamped:
\* createList with p > n stores the list at n, moveList with newPosition > n-1
\* stores it at n-1, and the positions stay contiguous.
C6_Clamped ==
  /\ (/\ last.op = "createList" /\ last.committed /\ last.given
      /\ Contiguous(pre, last.board)
      /\ last.new > Count(pre, last.board))
     => /\ lists[last.id].position = Count(pre, last.board)
        /\ Contiguous(lists, last.board)
  /\ (/\ last.op = "moveList" /\ last.committed
      /\ ~pre[last.id].isArchived
      /\ Contiguous(pre, last.board)
      /\ last.new > Count(pre, last.board) - 1)
     => /\ lists[last.id].position = Count(pre, last.board) - 1
        /\ Contiguous(lists, last.board)

\* C7: on a contiguous board, createList at a position p in 0 .. n followed by
\* archiveList or deleteList of that same list leaves every other list at
\* exactly the position it had before the insert.
C7_InsertRemoveInverse ==
  (/\ ins.age = 1
   /\ last.op \in {"archiveList", "deleteList"}
   /\ last.committed
   /\ last.id = ins.id
   /\ ins.given
   /\ ins.p <= Count(ins.lists, ins.board)
   /\ Contiguous(ins.lists, ins.board))
  =>
  \A j \in DOMAIN ins.lists :
    j \in DOMAIN lists /\ lists[j] = ins.lists[j]

\* a list inserted before existing lists and then archived again
C7_Witness ==
  /\ ins.age = 1 /\ ins.given /\ ins.p = 1
  /\ Count(ins.lists, ins.board) >= 3 /\ Contiguous(ins.lists, ins.board)
  /\ last.op = "archiveList" /\ last.committed /\ last.id = ins.id
  /\ \E j \in DOMAIN ins.lists : ins.lists[j].position = 2 /\ pre[j].position = 3

\* the board rooms a socket is in
BoardRoomsOf(s) == {r \in rooms[s] : r.kind = "board"}

\* C8: after any sequence of join_board and leave_board events a connected
\* session is in its personal room and in at most one board room, and
\* socket.currentBoard names that room exactly when the session is in one.
C8_OneBoardRoom ==
  \A s \in Sessions :
    connected[s] =>
      /\ UserRoom(SessionUser(s)) \in rooms[s]
      /\ Cardinality(BoardRoomsOf(s)) <= 1
      /\ BoardRoomsOf(s) = IF currentBoard[s] = "null" THEN {}
                           ELSE {BoardRoom(currentBoard[s])}

\* C9: a mutation broadcast emitted to room board:A is never delivered to a
\* session whose current board is a board B different from A.
C9_RoomIsolation ==
  \A i \in 1 .. Len(emitted) :
    (emitted[i].from = "server" /\ emitted[i].room.kind = "board") =>
      \A s \in emitted[i].to :
        currentBoard[s] \in {"null", emitted[i].room.id}

\* C10: every committed list or board mutation has its outcome event emitted
\* to room board:{boardId}, that is, delivered to every session in that room.
C10_OutcomeBroadcast ==
  outcome.op \in MutationOps =>
    \E i \in 1 .. Len(emitted) :
      /\ emitted[i].event = BroadcastHandler(outcome.op)
      /\ emitted[i].room = BoardRoom(outcome.board)
      /\ emitted[i].to = Members(rooms, BoardRoom(outcome.board))

\* the list mutations and the list.* event type that matches each
ListMutations == {"createList", "updateList", "moveList", "archiveList", "deleteList"}

ListEventType(op) ==
  CASE op = "createList" -> LIST_CREATED
    [] op = "updateList" -> LIST_UPDATED
    [] op = "moveList" -> LIST_MOVED
    [] op = "archiveList" -> <<"list", ".", "archived">>
    [] op = "deleteList" -> LIST_DELETED

\* C11: every committed createList, updateList, moveList, archiveList and
\* deleteList whose handler has run to its end with the broker reachable
\* throughout has published exactly one message, of the matching list.* type.
C11_EventPerMutation ==
  (tail.pc = "done" /\ tail.committed /\ tail.brokerUp /\ tail.op \in ListMutations)
    => /\ Len(tail.published) = 1
       /\ tail.published[1].eventType = ListEventType(tail.op)

\* C17: when the publish of createList, updateList, createBoard, updateBoard
\* or deleteBoard has thrown, the change stays committed, the broadcast of a
\* controller that has one is emitted to the board room, and the caller gets
\* the success response.
C17_PublishFailureTolerated ==
  (tail.pc = "done" /\ tail.pubFailed)
    => /\ tail.committed
       /\ tail.status = "ok"
       /\ Broadcasts(tail.op) => tail.emit.room = tail.board

\* C18: whatever happens in the broadcast step of a committed mutation, the
\* change stays committed and the caller gets the success response.
C18_BroadcastFailureTolerated ==
  tail.pc = "done" => (tail.committed /\ tail.status = "ok")

\* C19: once a mutation is committed the response is eventually sent, even
\* if the activity log write or the broker connect never completes.
C19_ResponseSent == (tail.pc = "log") ~> (tail.pc = "done")

\* C13: matchPattern(routingKey, pattern) is true exactly when the pattern
\* matches the key segment by segment, '*' standing for exactly one non-empty
\* segment and '#' for any number of segments, none included.
C13_MatchPattern ==
  (call.fn = "matchPattern" /\ call.done)
    => (call.result <=> TopicMatch(Split(call.args[1]), Split(call.args[2])))

\* C12: a message published by publishEvent without a routing key carries
\* its event type as routing key, so that card.assigned reaches a queue bound
\* with card.* and not one bound with list.#, and workspace.member.added
\* reaches a queue bound with workspace.#.
C12_RoutingKeyIsEventType ==
  (exchange.msg # NoMsg /\ exchange.msg.json /\ ~exchange.explicit)
    => /\ exchange.msg.routingKey = exchange.msg.eventType
       /\ exchange.msg.eventType = CARD_ASSIGNED
            => (Routes(exchange.msg, {CARD_STAR}) /\ ~Routes(exchange.msg, {LIST_HASH}))
       /\ exchange.msg.eventType = WORKSPACE_MEMBER_ADDED
            => Routes(exchange.msg, {WORKSPACE_HASH})

\* a settled delivery has exactly one of ack and nack, the nack (with the
\* message back at the head of the queue) exactly when something threw
SettledOnce ==
  /\ delivery.pc \in {"received", "handling"} => delivery.acks + delivery.nacks = 0
  /\ delivery.pc = "settled" =>
       /\ delivery.acks + delivery.nacks = 1
       /\ delivery.nacks = 1 <=> delivery.threw
       /\ ~delivery.msg.json => delivery.nacks = 1
       /\ (delivery.msg.json /\ delivery.invoked = <<>>) => delivery.acks = 1
       /\ delivery.nacks = 1 => (queue # <<>> /\ Head(queue) = delivery.msg)

\* C14: every delivery is settled, by exactly one ack or nack: ack when the
\* handler completes or none matches, nack with requeue when JSON.parse or
\* the handler throws; never both, never neither.
C14_AckOrNack ==
  /\ []SettledOnce
  /\ (delivery.pc = "received") ~> (delivery.pc = "settled")

\* a delivery whose handler threw was rejected and requeued
C14_Witness ==
  /\ delivery.pc = "settled"
  /\ delivery.invoked # <<>>
  /\ delivery.threw
  /\ delivery.nacks = 1

\* the messages that can be in the queue
Deliverable ==
  {Message(pb[1], pb[2]) : pb \in Publications} \cup {RawMessage(USER_REGISTERED)}

\* C15: every message handed to the consumer is, after a bounded number of
\* redeliveries, acknowledged (the code has no dead-letter path), so that the
\* messages behind it get their turn.
C15_RedeliveryBounded ==
  \A m \in Deliverable :
    (delivery.pc = "received" /\ delivery.msg = m)
      ~> (delivery.pc = "settled" /\ delivery.msg = m /\ delivery.acks = 1)

\* the entry invoked for a delivery is the first one, in registration
\* order, whose pattern matchPattern accepts; none is invoked only if none
\* matches
FirstMatchOnly ==
  LET key == delivery.msg.routingKey
      hit == {i \in 1 .. Len(handlers) : matchPattern(key, handlers[i].pattern)}
  IN delivery.pc \in {"handling", "settled"} =>
       /\ Len(delivery.invoked) <= 1
       /\ delivery.invoked # <<>> =>
            \E i \in hit : /\ handlers[i] = delivery.invoked[1]
                            /\ \A j \in hit : i <= j
       /\ (delivery.msg.json /\ delivery.invoked = <<>>) => hit = {}

\* the pattern registered last has one entry, with the handler given
RegisteredOnce ==
  call.fn = "registerHandler" =>
    /\ Cardinality(EntriesOf(handlers, call.args[1])) = 1
    /\ \A i \in EntriesOf(handlers, call.args[1]) : handlers[i].handler = call.args[2]

\* no step moves a registered pattern to another place
OrderKept ==
  \A i \in 1 .. Len(handlers) :
    i <= Len(handlers') /\ handlers'[i].pattern = handlers[i].pattern

\* C16: at most one handler is invoked for a delivery, that of the first
\* registered pattern matching the routing key; registering a pattern again
\* replaces its handler and leaves its place in the order.
C16_FirstMatchDispatch ==
  /\ [](FirstMatchOnly /\ RegisteredOnce)
  /\ [][OrderKept]_vars

\* 'user.*' registered before '#' and then once more; a user.registered
\* message, which both match, is with the handler of 'user.*'
C16_Witness ==
  /\ Len(handlers) = 2
  /\ handlers[1].pattern = USER_STAR
  /\ handlers[2].pattern = Hash
  /\ call.fn = "registerHandler" /\ call.result /\ call.args[1] = USER_STAR
  /\ delivery.pc = "handling"
  /\ delivery.msg.routingKey = USER_REGISTERED
  /\ delivery.invoked = <<handlers[1]>>

\* viewer < member < admin: the pairs <<held, required>> with held >= required
AtLeast ==
  {<<"viewer", "viewer">>, <<"member", "viewer">>, <<"member", "member">>,
   <<"admin", "viewer">>, <<"admin", "member">>, <<"admin", "admin">>}

\* C20: hasPermission(userId, requiredRole) is true for the owner whatever
\* the role and the membership; for another user it is true exactly when the
\* user has a member entry whose role is at least the required one; for a
\* user who is neither owner nor member it is false.
C20_HasPermission ==
  (call.fn = "hasPermission" /\ call.done) =>
    LET doc == call.args[1]
        userId == call.args[2]
        requiredRole == call.args[3]
    IN /\ doc.owner = userId => call.result
       /\ doc.owner # userId =>
            (call.result <=> (/\ doc.members[userId] # "none"
                              /\ <<doc.members[userId], requiredRole>> \in AtLeast))
       /\ (doc.owner # userId /\ doc.members[userId] = "none") => ~call.result

\* a member who is not the owner passes a check for the role member
C20_Witness ==
  /\ call.fn = "hasPermission" /\ call.done
  /\ call.args[1].owner # call.args[2]
  /\ call.args[1].members[call.args[2]] = "member"
  /\ call.args[3] = "member"
  /\ call.result

\* C25: moveList or deleteList applied to a list that is already archived
\* (whose stored position is stale) changes the position of no non-archived
\* list of the board.
C25_ArchivedFrame ==
  (/\ last.op \in {"moveList", "deleteList"}
   /\ last.committed
   /\ pre[last.id].isArchived)
  => \A i \in DOMAIN pre :
       (i # last.id /\ ~pre[i].isArchived)
       => (i \in DOMAIN lists /\ lists[i].position = pre[i].position)

TypedFailures == {"not_found", "forbidden", "bad_request"}

\* a failed request leaves the collections, the rooms, the exchange and the
\* queue as they were and records neither a commit nor a broadcast
NothingWritten ==
  /\ UNCHANGED <<boards, lists, cards, nextId>>
  /\ UNCHANGED <<emitted, exchange, queue>>
  /\ ~last'.committed
  /\ last'.writes = 0
  /\ last'.emit = NoEmit

\* the typed failures that apply to a request on list id by user u that needs
\* the role minRole and must not find the list in one of the states invalid
ListFailures(id, u, minRole, invalid) ==
  (IF id \notin DOMAIN lists THEN {"not_found"} ELSE {})
  \cup (IF /\ id \in DOMAIN lists
           /\ boards[lists[id].boardId].owner # u
           /\ <<boards[lists[id].boardId].members[u], minRole>> \notin AtLeast
        THEN {"forbidden"} ELSE {})
  \cup (IF id \in DOMAIN lists /\ invalid THEN {"bad_request"} ELSE {})

Reported(failures) ==
  failures # {} => (last'.status \in failures /\ NothingWritten)

\* C21: a list operation that meets a typed failure (list or board missing;
\* caller below member for create, move and archive, below admin for delete;
\* archiving an archived list, unarchiving a non-archived list, deleting a
\* list with active cards) reports that failure, and a list operation that
\* ends in a typed failure has written no list position, archive flag, card
\* or board statistic and has emitted no broadcast or event.
C21_TypedFailure ==
  [][/\ \A id \in 1 .. nextId, u \in Users :
          /\ (last'.op = "moveList" /\ \E p \in 0 .. FailN : moveList(id, u, p))
               => Reported(ListFailures(id, u, "member", FALSE))
          /\ (last'.op = "archiveList" /\ archiveList(id, u))
               => Reported(ListFailures(id, u, "member", lists[id].isArchived))
          /\ (last'.op = "unarchiveList" /\ unarchiveList(id, u))
               => Reported(ListFailures(id, u, "member", ~lists[id].isArchived))
          /\ (last'.op = "deleteList" /\ deleteList(id, u))
               => Reported(ListFailures(id, u, "admin", cards[id].active > 0))
     /\ \A b \in Boards, u \in Users :
          (/\ last'.op = "createList"
           /\ \E given \in BOOLEAN, p \in 0 .. FailN : createList(b, u, given, p))
            => Reported((IF ~boards[b].exists THEN {"not_found"} ELSE {})
                        \cup (IF /\ boards[b].exists
                                 /\ boards[b].owner # u
                                 /\ <<boards[b].members[u], "member">> \notin AtLeast
                              THEN {"forbidden"} ELSE {}))
     /\ (budget' < budget /\ last'.status \in TypedFailures) => NothingWritten
    ]_vars

\* a member below admin was refused the deletion of a list, and an admin was
\* refused the deletion of a list that holds an active card
C21_Witness ==
  /\ last.op = "deleteList"
  /\ last.status \in {"forbidden", "bad_request"}
  /\ \E u \in Users : boards["b1"].members[u] = "member"
  /\ \E i \in DOMAIN cards : cards[i].active > 0

\* C28: the archivedCardCount that archiveList reports and subtracts from the
\* board's totalCards is the number of cards this call changed from active to
\* archived, also when the list already held archived cards.
C28_ArchivedCardCount ==
  [][(/\ budget' < budget
      /\ last'.op = "archiveList"
      /\ last'.committed)
     => /\ archivedCardCount(cards', last'.id) = cards[last'.id].active
        /\ boards'[last'.board].totalCards
             = boards[last'.board].totalCards - cards[last'.id].active
    ]_vars

\* C27: createList is all-or-nothing for positions: when storing the new
\* list fails after the existing lists were shifted, the existing lists end
\* with the positions they had before the call.
C27_AllOrNothing ==
  \A r \in Requests :
    (/\ req[r].op = "createList"
     /\ req[r].pc = "done"
     /\ req[r].status = "error"
     /\ \A o \in Requests \ {r} : req[o].pc = "idle")
    => /\ DOMAIN lists = DOMAIN pre
       /\ \A i \in DOMAIN pre : lists[i].position = pre[i].position

\* C22: when a session that is in room board:A sends join_board for another
\* board B, it is taken out of board:A and the members that remain in board:A
\* are sent user_left_board in the name of the session, and only then is it
\* put into board:B and the other members of board:B are sent
\* user_joined_board; the session itself is a recipient of neither.
C22_SwitchBoard ==
  [][\A s \in Sessions, A \in Boards, B \in Boards :
       (/\ A # B
        /\ BoardRoom(A) \in rooms[s]
        /\ join_board(s, B))
       => /\ BoardRoom(A) \notin rooms'[s]
          /\ BoardRoom(B) \in rooms'[s]
          /\ emitted' =
               <<[event |-> "user_left_board", room |-> BoardRoom(A), from |-> s,
                  to |-> Members(rooms, BoardRoom(A)) \ {s}],
                 [event |-> "user_joined_board", room |-> BoardRoom(B), from |-> s,
                  to |-> Members(rooms, BoardRoom(B)) \ {s}]>>
    ]_vars

\* C23: once the disconnect handler of a session has run, no
\* user_stopped_typing and no other broadcast in the name of that session
\* reaches anyone, also when it sent start_typing just before it disconnected.
C23_SilentAfterDisconnect ==
  [][\A s \in Sessions :
       ~connected[s] =>
         \A i \in 1 .. Len(emitted') : emitted'[i].from = s => emitted'[i].to = {}
    ]_vars

\* the event of a card of a board, sent in the name of session s, is among
\* the emissions of the latest handler
Emitted(event, s, boardId, cardId) ==
  \E i \in 1 .. Len(emitted) :
    /\ emitted[i].event = event
    /\ emitted[i].from = s
    /\ emitted[i].room = BoardRoom(boardId)
    /\ emitted[i].card = cardId

\* C24: every user_typing for a board and a card is eventually followed by a
\* user_stopped_typing for the same board and card, sent by stop_typing or by
\* the 3-second timer, also when the session sends start_typing for another
\* card or board before the timer fires.
C24_TypingExpires ==
  \A s \in Sessions, b \in Boards, c \in CardIds :
    Emitted("user_typing", s, b, c) ~> Emitted("user_stopped_typing", s, b, c)

\* C26: start_typing, stop_typing, cursor_move, cursor_leave and
\* update_presence reach only the board room the sender is in: a session that
\* is not in board:X causes no emission to board:X by naming X in boardId.
C26_OwnRoomOnly ==
  [][\A s \in Sessions, b \in Boards :
       (/\ BoardRoom(b) \notin rooms[s]
        /\ \/ \E c \in CardIds : \/ start_typing(s, b, c)
                                 \/ stop_typing(s, b, c)
                                 \/ cursor_move(s, b, c)
                                 \/ cursor_leave(s, b, c)
           \/ update_presence(s, b))
       => \A i \in 1 .. Len(emitted') :
            emitted'[i].room = BoardRoom(b) => emitted'[i].to = {}
    ]_vars

\* C29: the account becomes locked only when 5 failed logins in a row have
\* occurred since the last successful login, password reset or lock expiry
\* (so one failure after the lock has expired does not lock it again), and
\* while it is locked every login, also one with the right password, is
\* rejected and leaves loginAttempts unchanged.
C29_Lockout ==
  [][/\ (~isLocked(user, clock) /\ isLocked(user', clock'))
          => attempt'.streak >= LockAfter
     /\ \A valid \in BOOLEAN :
          (isLocked(user, clock) /\ login(valid))
          => (attempt'.status = "locked" /\ user'.loginAttempts = user.loginAttempts)
    ]_vars

\* C30: whatever the interleaving of the connect() calls made while the
\* singleton is not connected, the broker opens at most one connection and
\* one channel, and every caller is returned the channel that this.channel
\* holds in the end.
C30_Singleton ==
  /\ made.connections <= 1
  /\ made.channels <= 1
  /\ (\A c \in Callers : callers[c].pc = "done")
       => \A c \in Callers : callers[c].result = rabbitmq.channel

====
